---- MODULE Spec2Model ----
(***************************************************************************)
(* Query-time RAG pipeline of clinictechai: the query orchestrator         *)
(* (app/services/query_service.py) with the content moderator, the         *)
(* embedding / vector-store wrappers, the reranker wrapper, the grounded   *)
(* generator, the answer verifier and the chat memory it drives.           *)
(*                                                                         *)
(* External capabilities (OpenAI moderation / embedding / chat clients,    *)
(* ChromaDB, the cross-encoder, the file system) are the environment: each *)
(* call draws its reply from a small set that includes raising.           *)
(* Python floats are modelled as exact rationals [n, d] in lowest terms.   *)
(* Python None is the string None; a dict is a record whose DOMAIN is the  *)
(* set of keys the code puts into it.                                      *)
(***************************************************************************)
EXTENDS Integers, Sequences, FiniteSets, TLC

VARIABLES
    moderator,      \* ContentModerator fields: [enabled, client]
    services,       \* construction-time state of the other capabilities
    sessions,       \* memory_manager.sessions: session_id -> ChatMemory object id (0 = absent)
    heap,           \* ChatMemory objects by id: [messages, documents_used]
    disk,           \* storage/chat_sessions/<id>.json: session_id -> saved dict or None
    pc,             \* per request: the await the coroutine is suspended at
    req,            \* per request: arguments of process_query_with_history
    loc,            \* per request: local variables of process_query_with_history
    resp,           \* per request: what the caller got (payload or HTTPException)
    calls,          \* per request: capability calls made so far (observation)
    events,         \* per request: what the environment did to it (observation)
    turns,          \* requests started so far
    vin,            \* arguments of the latest verify_answer call (in the component
                    \* specifications: of the one component call made)
    vout,           \* what that call returned
    appended        \* chat-memory specification: the messages appended to the
                    \* session under study since it was last empty (observation)

vars == <<moderator, services, sessions, heap, disk, pc, req, loc, resp, calls,
          events, turns, vin, vout, appended>>

orchVars == <<moderator, services, sessions, heap, disk, pc, req, loc, resp,
              calls, events, turns, appended>>

None == "None"

-----------------------------------------------------------------------------
(* Bounds of the model *)

\* requests started in one behaviour
MaxTurns == 1

\* ChatMemory objects ever allocated
MaxObjects == 2

-----------------------------------------------------------------------------
(* Exact rationals for Python floats *)

RECURSIVE GCD(_, _)
GCD(a, b) == IF b = 0 THEN a ELSE GCD(b, a % b)

Abs(n) == IF n < 0 THEN -n ELSE n

Rat(n, d) ==
    LET g == GCD(Abs(n), d)
    IN  IF n = 0 THEN [n |-> 0, d |-> 1] ELSE [n |-> n \div g, d |-> d \div g]

RatAdd(x, y) == Rat(x.n * y.d + y.n * x.d, x.d * y.d)
RatSub(x, y) == Rat(x.n * y.d - y.n * x.d, x.d * y.d)
RatDivInt(x, k) == Rat(x.n, x.d * k)
RatMulInt(x, k) == Rat(x.n * k, x.d)
RatLeq(x, y) == x.n * y.d <= y.n * x.d
RatLt(x, y) == x.n * y.d < y.n * x.d
RatMin(x, y) == IF RatLeq(x, y) THEN x ELSE y
Zero == Rat(0, 1)
One == Rat(1, 1)
InUnit(x) == RatLeq(Zero, x) /\ RatLeq(x, One)

-----------------------------------------------------------------------------
(* Sequence helpers *)

Range(s) == {s[i] : i \in 1..Len(s)}

RECURSIVE JoinStr(_, _)
\* sep.join(parts)
JoinStr(parts, sep) ==
    IF Len(parts) = 0 THEN ""
    ELSE IF Len(parts) = 1 THEN parts[1]
    ELSE parts[1] \o sep \o JoinStr(Tail(parts), sep)

\* s[:k]
Prefix(s, k) == SubSeq(s, 1, IF k < Len(s) THEN k ELSE Len(s))

\* s[-k:] when len(s) > k, else s
LastN(s, k) == IF Len(s) > k THEN SubSeq(s, Len(s) - k + 1, Len(s)) ELSE s

-----------------------------------------------------------------------------
(* Content moderator: app/safety/content_moderator.py *)

categories_to_check == <<"hate", "hate/threatening", "violence", "harassment">>

\* Replies of client.moderations.create: it raises, or the set of categories the
\* classification flags (result.flagged is true iff the set is non-empty).
ModerationReplies ==
    {[raise |-> TRUE]} \cup
    { [raise |-> FALSE, cats |-> c] :
        c \in {{}, {"hate"}, {"sexual"}, {"violence", "harassment"}} }

\* len(text.strip()) of the texts the pipeline handles
StripLen(text) == IF text \in {"", " "} THEN 0 ELSE Len(text)

\* _moderate_text on a reply that did not raise
ModerateText(reply) ==
    IF reply.cats # {}
    THEN [flagged |-> TRUE,
          violated_categories |-> SelectSeq(categories_to_check, LAMBDA c : c \in reply.cats),
          reason |-> "policy_violation"]
    ELSE [flagged |-> FALSE, reason |-> "safe"]

\* check_input / check_output (same body up to log text): the tuple
\* (is_safe, details), or raised = TRUE when the call raises to its caller.
\* The guard on line 54 / 87 is outside the try block: text.strip() on None
\* raises AttributeError when the first two disjuncts are false.
CheckText(mod, text, reply) ==
    IF ~mod.enabled \/ ~mod.client
    THEN [raised |-> FALSE, is_safe |-> TRUE, called |-> FALSE,
          details |-> [flagged |-> FALSE, reason |-> "moderation_disabled"]]
    ELSE IF text = None
    THEN [raised |-> TRUE, is_safe |-> TRUE, called |-> FALSE,
          details |-> [flagged |-> FALSE, reason |-> "AttributeError"]]
    ELSE IF StripLen(text) < 2
    THEN [raised |-> FALSE, is_safe |-> TRUE, called |-> FALSE,
          details |-> [flagged |-> FALSE, reason |-> "moderation_disabled"]]
    ELSE IF reply.raise
    THEN [raised |-> FALSE, is_safe |-> TRUE, called |-> TRUE,
          details |-> [flagged |-> FALSE, reason |-> "check_error"]]
    ELSE IF ModerateText(reply).flagged
    THEN [raised |-> FALSE, is_safe |-> FALSE, called |-> TRUE,
          details |-> ModerateText(reply)]
    ELSE [raised |-> FALSE, is_safe |-> TRUE, called |-> TRUE,
          details |-> [flagged |-> FALSE, reason |-> "safe"]]

\* check_input failing closed: a raising moderation call refuses the text
check_input_fail_closed(mod, text, reply) ==
    LET res == CheckText(mod, text, reply)
    IN  IF res.called /\ reply.raise
        THEN [res EXCEPT !.is_safe = FALSE,
                         !.details = [flagged |-> TRUE, violated_categories |-> <<>>,
                                      reason |-> "check_error"]]
        ELSE res

check_input(mod, text, reply) == CheckText(mod, text, reply)

check_output(mod, text, reply) == CheckText(mod, text, reply)

\* get_violation_message
get_violation_message(moderation_result, stage) ==
    IF ~moderation_result.flagged THEN ""
    ELSE IF stage = "input"
    THEN "Your message violates our safety policy ("
         \o JoinStr(moderation_result.violated_categories, ", ")
         \o "). Please rephrase your question without hate speech, violence, or harassment."
    ELSE "The generated response contained policy violations ("
         \o JoinStr(moderation_result.violated_categories, ", ")
         \o "). Please ask a different question or try again."

-----------------------------------------------------------------------------
(* Chat memory: app/services/chat_memory.py *)

\* defaults of ChatMemory.__init__ and the per-message token estimate
DefaultMaxMessages == 20
DefaultMaxTokens == 4000
TokensPerMessage == 150

EmptyDict == [k \in {} |-> None]

\* d.get(k, default)
Get(d, k, default) == IF k \in DOMAIN d THEN d[k] ELSE default

\* readings of datetime.utcnow().isoformat()
Instants == {"2026-01-01T00:00:00", "2026-01-01T00:00:01"}
FirstInstant == "2026-01-01T00:00:00"

\* ConversationMessage.__init__ : timestamp or utcnow(), metadata or {} (a
\* call without timestamp passes None, one without metadata EmptyDict)
ConversationMessage(role, content, timestamp, metadata, now) ==
    [role |-> role, content |-> content,
     timestamp |-> IF timestamp = None \/ timestamp = "" THEN now ELSE timestamp,
     metadata |-> metadata]

\* ConversationMessage.to_dict
ConversationMessageToDict(msg) ==
    [role |-> msg.role, content |-> msg.content, timestamp |-> msg.timestamp,
     metadata |-> msg.metadata]

\* ConversationMessage.from_dict that stamps the message anew
ConversationMessageFromDictRestamped(data, now) ==
    ConversationMessage(Get(data, "role", None), Get(data, "content", None),
                        None, Get(data, "metadata", EmptyDict), now)

\* ConversationMessage.from_dict
ConversationMessageFromDict(data, now) ==
    ConversationMessage(Get(data, "role", None), Get(data, "content", None),
                        Get(data, "timestamp", None), Get(data, "metadata", EmptyDict),
                        now)

\* ChatMemory.__init__
ChatMemory(session_id, max_messages, max_tokens) ==
    [session_id |-> session_id, messages |-> <<>>, documents_used |-> {},
     max_messages |-> max_messages, max_tokens |-> max_tokens]

\* ChatMemoryManager.create_session: ChatMemory(session_id)
NewChatMemory(session_id) ==
    ChatMemory(session_id, DefaultMaxMessages, DefaultMaxTokens)

RECURSIVE DropWhileOverCount(_, _)
\* first loop of _manage_memory
DropWhileOverCount(msgs, max_messages) ==
    IF Len(msgs) > max_messages
    THEN DropWhileOverCount(Tail(msgs), max_messages)
    ELSE msgs

RECURSIVE DropWhileOverTokens(_, _)
\* second loop of _manage_memory
DropWhileOverTokens(msgs, max_tokens) ==
    IF Len(msgs) > 1 /\ Len(msgs) * TokensPerMessage > max_tokens
    THEN DropWhileOverTokens(Tail(msgs), max_tokens)
    ELSE msgs

\* _manage_memory with the count loop dropping from the newest end
manage_memory_keep_oldest(m) ==
    LET kept == Prefix(m.messages, m.max_messages)
    IN  [m EXCEPT !.messages =
            IF Len(kept) * TokensPerMessage > m.max_tokens
            THEN DropWhileOverTokens(kept, m.max_tokens)
            ELSE kept]

\* ChatMemory._manage_memory
manage_memory(m) ==
    LET kept == DropWhileOverCount(m.messages, m.max_messages)
    IN  [m EXCEPT !.messages =
            IF Len(kept) * TokensPerMessage > m.max_tokens
            THEN DropWhileOverTokens(kept, m.max_tokens)
            ELSE kept]

\* add_user_message without the call of _manage_memory
add_user_message_unmanaged(m, content, metadata, now) ==
    [m EXCEPT !.messages =
        Append(@, ConversationMessage("user", content, None, metadata, now))]

\* ChatMemory.add_user_message
add_user_message(m, content, metadata, now) ==
    manage_memory([m EXCEPT !.messages =
        Append(@, ConversationMessage("user", content, None, metadata, now))])

\* add_assistant_message with documents_used rebuilt from the messages kept
add_assistant_message_kept_only(m, content, metadata, now) ==
    LET kept == manage_memory([m EXCEPT !.messages =
            Append(@, ConversationMessage("assistant", content, None, metadata, now))])
    IN  [kept EXCEPT !.documents_used =
            UNION {Range(Get(kept.messages[i].metadata, "documents_used", <<>>)) :
                      i \in {j \in 1..Len(kept.messages) :
                                kept.messages[j].role = "assistant"}}]

\* ChatMemory.add_assistant_message
add_assistant_message(m, content, metadata, now) ==
    LET added == [m EXCEPT !.messages =
            Append(@, ConversationMessage("assistant", content, None, metadata, now))]
        tracked ==
            IF "documents_used" \in DOMAIN metadata
            THEN [added EXCEPT !.documents_used = @ \cup Range(metadata.documents_used)]
            ELSE added
    IN  manage_memory(tracked)

\* ChatMemory.clear_history
clear_history(m) == [m EXCEPT !.messages = <<>>, !.documents_used = {}]

\* ChatMemory.get_context_for_llm: the messages that go into the transcript
\* (the text is a fixed rendering of their roles and contents)
get_context_for_llm(m, last_n) ==
    LET recent == LastN(m.messages, last_n)
    IN  [i \in 1..Len(recent) |-> [role |-> recent[i].role, content |-> recent[i].content]]

\* list(a_set): the elements once each, in an order of the interpreter's
SetToList(S) == CHOOSE l \in [1..Cardinality(S) -> S] : Range(l) = S

\* ChatMemory.to_dict (created_at / last_updated left out)
ChatMemoryToDict(m) ==
    [session_id |-> m.session_id,
     messages |-> [i \in 1..Len(m.messages) |-> ConversationMessageToDict(m.messages[i])],
     documents_used |-> SetToList(m.documents_used)]

\* ChatMemory.from_dict
ChatMemoryFromDict(data, max_messages, now) ==
    LET memory == ChatMemory(Get(data, "session_id", ""), max_messages, DefaultMaxTokens)
        msgs == Get(data, "messages", <<>>)
    IN  [memory EXCEPT
            !.documents_used = Range(Get(data, "documents_used", <<>>)),
            !.messages = [i \in 1..Len(msgs) |-> ConversationMessageFromDict(msgs[i], now)]]

\* Replies of the file system to open(..., 'w') + json.dump
SaveReplies == {[raise |-> FALSE], [raise |-> TRUE]}

\* ChatMemoryManager.save_session: the new content of the session's file
save_session(sess, objects, files, session_id, reply) ==
    IF sess[session_id] = 0 THEN files
    ELSE IF reply.raise THEN files
    ELSE [files EXCEPT ![session_id] = ChatMemoryToDict(objects[sess[session_id]])]

\* ChatMemoryManager.load_session: nothing without a file, else the session
\* rebuilt by ChatMemory.from_dict(data) with the default capacity
load_session(files, session_id, now) ==
    IF files[session_id] = [exists |-> FALSE] THEN [found |-> FALSE]
    ELSE [found |-> TRUE,
          memory |-> ChatMemoryFromDict(files[session_id], DefaultMaxMessages, now)]

-----------------------------------------------------------------------------
(* Embedding service and vector store: app/embedding/embedding_service.py *)

Vector == <<1, 0>>

EmbedReplies == {[raise |-> TRUE], [raise |-> FALSE]}

\* EmbeddingService.embed_text: every failure is turned into []
embed_text(client, text, reply) ==
    IF ~client THEN <<>>
    ELSE IF StripLen(text) = 0 THEN <<>>
    ELSE IF reply.raise THEN <<>>
    ELSE Vector

HitA ==
    [id |-> "doc1_p2_c0", distance |-> Rat(1, 5),
     metadata |-> [text |-> "Take 5 mg daily.", page_number |-> 2,
                   document_id |-> "doc1", source_document |-> "a.pdf"]]

HitB ==
    [id |-> "doc2_p1_c0", distance |-> Rat(4, 5),
     metadata |-> [text |-> "Store below 25 C.", page_number |-> 1,
                   document_id |-> "doc2", source_document |-> "b.pdf"]]

HitC ==
    [id |-> "doc1_p3_c0", distance |-> Rat(3, 5),
     metadata |-> [text |-> "Do not freeze.", page_number |-> 3,
                   document_id |-> "doc1", source_document |-> "a.pdf"]]

\* Replies of collection.query: it raises, or the ranked hits
SearchReplies ==
    {[raise |-> TRUE]} \cup
    { [raise |-> FALSE, hits |-> h] : h \in {<<>>, <<HitA>>, <<HitA, HitB>>} }

\* VectorStore.search: every failure is turned into []
search(collection, query_embedding, top_k, reply) ==
    IF Len(query_embedding) = 0 THEN <<>>
    ELSE IF ~collection THEN <<>>
    ELSE IF reply.raise THEN <<>>
    ELSE Prefix(reply.hits, top_k)

-----------------------------------------------------------------------------
(* Reranker wrapper: app/reranking/reranker.py *)

NeutralScore == Rat(1, 2)

RerankScoreValues == {Rat(1, 10), Rat(9, 10)}

\* Replies of CrossEncoder.predict on n pairs
RerankReplies(n) ==
    {[raise |-> TRUE]} \cup
    { [raise |-> FALSE, scores |-> s] : s \in [1..n -> RerankScoreValues] }

\* QueryReranker.rerank with a fallback that ranks the candidates by position
rerank_positional_fallback(model, texts, reply) ==
    IF ~model \/ Len(texts) = 0 THEN [i \in 1..Len(texts) |-> Rat(i, 10)]
    ELSE IF reply.raise THEN [i \in 1..Len(texts) |-> Rat(i, 10)]
    ELSE reply.scores

\* QueryReranker.rerank
rerank(model, texts, reply) ==
    IF ~model \/ Len(texts) = 0 THEN [i \in 1..Len(texts) |-> NeutralScore]
    ELSE IF reply.raise THEN [i \in 1..Len(texts) |-> NeutralScore]
    ELSE reply.scores

-----------------------------------------------------------------------------
(* Reranker.rerank_chunks: app/retrieval/retriever.py.  Defined after the   *)
(* orchestrator's sort, which it shares; see rerank_chunks below.           *)

\* settings.top_k_results
TopKResults == 5

-----------------------------------------------------------------------------
(* Grounded generator: app/llm/llm_service.py *)

GenReplies == {[raise |-> TRUE], [raise |-> FALSE, text |-> "Take 5 mg daily."]}

\* LLMService._error_response
error_response(error) ==
    [success |-> FALSE, answer |-> None, error |-> error, sources |-> <<>>]

\* LLMService._extract_sources
extract_sources(chunks) ==
    [i \in 1..Len(chunks) |->
        [document |-> Get(chunks[i], "source_document", "Unknown"),
         page_number |-> Get(chunks[i], "page_number", 0),
         chunk_id |-> Get(chunks[i], "chunk_id", ""),
         similarity_score |-> Get(chunks[i], "similarity_score", Zero),
         rerank_score |-> Get(chunks[i], "rerank_score", Zero)]]

\* LLMService.generate_grounded_answer: never raises
generate_grounded_answer(client, chunks, chat_history, reply) ==
    IF ~client THEN error_response("LLM client not initialized")
    ELSE IF reply.raise THEN error_response("generation failed")
    ELSE [success |-> TRUE, answer |-> reply.text,
          sources |-> extract_sources(chunks), context_used |-> Len(chunks)]

-----------------------------------------------------------------------------
(* Python string operations used by the verifier *)

CharAt(s, i) == SubSeq(s, i, i)

UpperLetters ==
    {"A", "B", "C", "D", "E", "F", "G", "H", "I", "J", "K", "L", "M",
     "N", "O", "P", "Q", "R", "S", "T", "U", "V", "W", "X", "Y", "Z"}

LowerChar(c) ==
    IF c \notin UpperLetters THEN c ELSE
    CASE c = "A" -> "a" [] c = "B" -> "b" [] c = "C" -> "c" [] c = "D" -> "d"
      [] c = "E" -> "e" [] c = "F" -> "f" [] c = "G" -> "g" [] c = "H" -> "h"
      [] c = "I" -> "i" [] c = "J" -> "j" [] c = "K" -> "k" [] c = "L" -> "l"
      [] c = "M" -> "m" [] c = "N" -> "n" [] c = "O" -> "o" [] c = "P" -> "p"
      [] c = "Q" -> "q" [] c = "R" -> "r" [] c = "S" -> "s" [] c = "T" -> "t"
      [] c = "U" -> "u" [] c = "V" -> "v" [] c = "W" -> "w" [] c = "X" -> "x"
      [] c = "Y" -> "y" [] c = "Z" -> "z" [] OTHER -> c

RECURSIVE Lower(_)
\* str.lower, by halves
Lower(s) ==
    IF Len(s) = 0 THEN ""
    ELSE IF Len(s) = 1 THEN LowerChar(s)
    ELSE Lower(SubSeq(s, 1, Len(s) \div 2)) \o Lower(SubSeq(s, Len(s) \div 2 + 1, Len(s)))

\* s holds nothing but blanks
IsBlank(s) == \A i \in 1..Len(s) : CharAt(s, i) = " "

\* str.lstrip
LStrip(s) ==
    IF s = "" THEN ""
    ELSE IF CharAt(s, 1) # " " THEN s
    ELSE IF IsBlank(s) THEN ""
    ELSE SubSeq(s, CHOOSE i \in 1..Len(s) :
                       CharAt(s, i) # " " /\ \A j \in 1..(i - 1) : CharAt(s, j) = " ",
                Len(s))

\* str.rstrip
RStrip(s) ==
    IF s = "" THEN ""
    ELSE IF CharAt(s, Len(s)) # " " THEN s
    ELSE IF IsBlank(s) THEN ""
    ELSE SubSeq(s, 1, CHOOSE i \in 1..Len(s) :
                          CharAt(s, i) # " " /\ \A j \in (i + 1)..Len(s) : CharAt(s, j) = " ")

\* str.strip
Strip(s) == RStrip(LStrip(s))

\* sub in s
Contains(s, sub) ==
    \E i \in 1..(Len(s) - Len(sub) + 1) : SubSeq(s, i, i + Len(sub) - 1) = sub

\* s.find(sub) + 1, or 0
FindFirst(s, sub) ==
    LET at == {i \in 1..(Len(s) - Len(sub) + 1) : SubSeq(s, i, i + Len(sub) - 1) = sub}
    IN  IF at = {} THEN 0 ELSE CHOOSE i \in at : \A j \in at : i <= j

RECURSIVE Split(_, _)
\* s.split(sep)
Split(s, sep) ==
    LET at == FindFirst(s, sep)
    IN  IF at = 0 THEN <<s>>
        ELSE <<SubSeq(s, 1, at - 1)>> \o Split(SubSeq(s, at + Len(sep), Len(s)), sep)

-----------------------------------------------------------------------------
(* difflib.SequenceMatcher(None, a, b).ratio() for texts below the autojunk  *)
(* length: longest matching block first (earliest in a, then earliest in b), *)
(* then the same to its left and to its right; ratio = 2 * matches / length  *)

RECURSIVE RunLen(_, _, _, _, _, _)
\* length of the common run of a[i..ahi) and b[j..bhi)
RunLen(a, b, i, j, ahi, bhi) ==
    IF i < ahi /\ j < bhi /\ CharAt(a, i) = CharAt(b, j)
    THEN 1 + RunLen(a, b, i + 1, j + 1, ahi, bhi)
    ELSE 0

SetMax(S) == CHOOSE x \in S : \A y \in S : y <= x
SetMin(S) == CHOOSE x \in S : \A y \in S : x <= y

find_longest_match(a, b, alo, ahi, blo, bhi) ==
    LET run == [i \in alo..(ahi - 1), j \in blo..(bhi - 1) |-> RunLen(a, b, i, j, ahi, bhi)]
        k == IF DOMAIN run = {} THEN 0 ELSE SetMax({run[p] : p \in DOMAIN run})
        i0 == SetMin({p[1] : p \in {q \in DOMAIN run : run[q] = k}})
        j0 == SetMin({p[2] : p \in {q \in DOMAIN run : run[q] = k /\ q[1] = i0}})
    IN  IF k = 0 THEN [i |-> alo, j |-> blo, k |-> 0] ELSE [i |-> i0, j |-> j0, k |-> k]

RECURSIVE MatchTotal(_, _, _, _, _, _)
\* sum of the sizes of get_matching_blocks()
MatchTotal(a, b, alo, ahi, blo, bhi) ==
    IF alo >= ahi \/ blo >= bhi THEN 0
    ELSE LET m == find_longest_match(a, b, alo, ahi, blo, bhi)
         IN  IF m.k = 0 THEN 0
             ELSE MatchTotal(a, b, alo, m.i, blo, m.j) + m.k
                  + MatchTotal(a, b, m.i + m.k, ahi, m.j + m.k, bhi)

SequenceMatcherRatio(a, b) ==
    IF Len(a) + Len(b) = 0 THEN One
    ELSE Rat(2 * MatchTotal(a, b, 1, Len(a) + 1, 1, Len(b) + 1), Len(a) + Len(b))

-----------------------------------------------------------------------------
(* Answer verifier: app/verification/verifier.py *)

\* settings.confidence_threshold default
DefaultThreshold == Rat(7, 10)
\* a sentence is supported above this similarity
SupportCutoff == Rat(6, 10)
\* subtracted per contradiction
ContradictionPenalty == Rat(2, 10)
\* pass mark of the "checks" map
CheckMark == Rat(7, 10)
\* confidence reported when verification is disabled
DisabledConfidence == Rat(8, 10)
\* score of a sub-check that raised
FallbackScore == Rat(1, 2)
EvidenceChunks == 3
ExactChunkLen == 200

\* an exception raised inside the named part of verify_answer
VerifierFaults == {"none", "grounding", "consistency", "relevance", "overall"}

\* isinstance(answer, str)
IsStr(x) == x # None

\* the non-blank sentences of an answer
Sentences(answer) ==
    SelectSeq(IF IsStr(answer) THEN Split(answer, ". ") ELSE <<"">>,
              LAMBDA t : Len(Strip(t)) > 0)

\* The user queries, and the texts that can reach the verifier from the
\* pipeline: generated answers, output refusals, chunk texts.
Queries == {"What dose?", ""}

PipelineAnswers ==
    {reply.text : reply \in {g \in GenReplies : ~g.raise}}
    \cup ({get_violation_message(ModerateText(reply), "output") :
             reply \in {m \in ModerationReplies : ~m.raise}} \ {""})

PipelineChunkTexts ==
    UNION {{reply.hits[i].metadata.text : i \in 1..Len(reply.hits)} :
              reply \in {h \in SearchReplies : ~h.raise}}

SimilarityRatio(s1, s2) == SequenceMatcherRatio(Strip(Lower(s1)), Strip(Lower(s2)))

\* the similarities of the pipeline's texts, computed once: pairs
\* <<(s1, s2), ratio>>
SimilarityTable ==
    LET pairs ==
            {<<Lower(a), Lower(t)>> :
                a \in UNION {Range(Sentences(x)) : x \in PipelineAnswers},
                t \in PipelineChunkTexts}
            \cup (PipelineAnswers \X Queries)
    IN  {<<p, SimilarityRatio(p[1], p[2])>> : p \in pairs}

\* AnswerVerifier._sentence_similarity
sentence_similarity(s1, s2) ==
    IF \E e \in SimilarityTable : e[1] = <<s1, s2>>
    THEN (CHOOSE e \in SimilarityTable : e[1] = <<s1, s2>>)[2]
    ELSE SimilarityRatio(s1, s2)

\* one sentence of the answer is supported by some chunk
Supported(sentence, chunks) ==
    \E i \in 1..Len(chunks) :
        RatLt(SupportCutoff,
              sentence_similarity(Lower(sentence), Lower(Get(chunks[i], "text", ""))))

\* AnswerVerifier._verify_grounding
verify_grounding(answer, chunks, fault) ==
    IF Len(chunks) = 0 THEN Zero
    ELSE IF fault = "grounding" THEN FallbackScore
    ELSE LET answer_sentences == Sentences(answer)
             supported_sentences ==
                 Cardinality({i \in 1..Len(answer_sentences) :
                                 Supported(answer_sentences[i], chunks)})
         IN  IF Len(answer_sentences) > 0
             THEN RatMin(One, Rat(supported_sentences, Len(answer_sentences)))
             ELSE Zero

negation_words == <<"no ", "not ", "never ", "cannot">>

\* _find_contradictions that compares the texts as they are written
find_contradictions_case_sensitive(answer, context) ==
    LET a == IF IsStr(answer) THEN answer ELSE ""
    IN  SelectSeq(negation_words, LAMBDA w : Contains(a, w) /\ ~Contains(context, w))

\* AnswerVerifier._find_contradictions
find_contradictions(answer, context) ==
    LET a == Lower(IF IsStr(answer) THEN answer ELSE "")
        c == Lower(context)
    IN  SelectSeq(negation_words, LAMBDA w : Contains(a, w) /\ ~Contains(c, w))

\* AnswerVerifier._verify_consistency
verify_consistency(answer, chunks, fault) ==
    IF Len(chunks) = 0 THEN FallbackScore
    ELSE IF fault = "consistency" THEN FallbackScore
    ELSE LET texts == [i \in 1..Len(chunks) |-> Get(chunks[i], "text", "")]
             context_parts == SelectSeq(texts, LAMBDA t : Len(Strip(t)) > 0)
             contradictions == find_contradictions(answer, JoinStr(context_parts, " "))
         IN  IF Len(context_parts) = 0 THEN FallbackScore
             ELSE RatSub(One, RatMin(One, RatMulInt(ContradictionPenalty, Len(contradictions))))

\* AnswerVerifier._verify_relevance
verify_relevance(answer, query, fault) ==
    IF fault = "relevance" THEN FallbackScore
    ELSE sentence_similarity(IF IsStr(answer) THEN answer ELSE "", query)

\* AnswerVerifier._extract_evidence (the highlighted rendering is left out)
extract_evidence(chunks) ==
    LET top == Prefix(chunks, EvidenceChunks)
    IN  [i \in 1..Len(top) |->
            [page_number |-> Get(top[i], "page_number", None),
             document |-> Get(top[i], "source_document", None),
             exact_chunk |-> Prefix(Get(top[i], "text", ""), ExactChunkLen),
             chunk_id |-> Get(top[i], "chunk_id", None)]]

\* AnswerVerifier._default_verification
default_verification(chunks) ==
    LET top == Prefix(chunks, EvidenceChunks)
    IN  [verified |-> TRUE,
         confidence_score |-> DisabledConfidence,
         meets_threshold |-> TRUE,
         verification_enabled |-> FALSE,
         evidence |-> [i \in 1..Len(top) |->
            [page_number |-> Get(top[i], "page_number", None),
             document |-> Get(top[i], "source_document", None),
             exact_chunk |-> Prefix(Get(top[i], "text", ""), ExactChunkLen)]]]

\* verify_answer answering an overall failure with the disabled-mode default
verify_answer_default_on_failure(v, answer, chunks, query, fault) ==
    IF fault = "overall" \/ ~v.verification_enabled THEN default_verification(chunks)
    ELSE LET grounding_score == verify_grounding(answer, chunks, fault)
             consistency_score == verify_consistency(answer, chunks, fault)
             relevance_score == verify_relevance(answer, query, fault)
             overall_confidence ==
                 RatDivInt(RatAdd(RatAdd(grounding_score, consistency_score),
                                  relevance_score), 3)
         IN  [verified |-> TRUE,
              confidence_score |-> overall_confidence,
              meets_threshold |-> RatLeq(v.confidence_threshold, overall_confidence),
              grounding_score |-> grounding_score,
              consistency_score |-> consistency_score,
              relevance_score |-> relevance_score,
              evidence |-> extract_evidence(chunks),
              checks |-> [grounding |-> RatLeq(CheckMark, grounding_score),
                          consistency |-> RatLeq(CheckMark, consistency_score),
                          relevance |-> RatLeq(CheckMark, relevance_score)]]

\* verify_answer adding the three scores without taking their mean
verify_answer_sum(v, answer, chunks, query, fault) ==
    IF fault = "overall"
    THEN [verified |-> FALSE, error |-> "error", confidence_score |-> Zero]
    ELSE IF ~v.verification_enabled THEN default_verification(chunks)
    ELSE LET grounding_score == verify_grounding(answer, chunks, fault)
             consistency_score == verify_consistency(answer, chunks, fault)
             relevance_score == verify_relevance(answer, query, fault)
             overall_confidence ==
                 RatAdd(RatAdd(grounding_score, consistency_score), relevance_score)
         IN  [verified |-> TRUE,
              confidence_score |-> overall_confidence,
              meets_threshold |-> RatLeq(v.confidence_threshold, overall_confidence),
              grounding_score |-> grounding_score,
              consistency_score |-> consistency_score,
              relevance_score |-> relevance_score,
              evidence |-> extract_evidence(chunks),
              checks |-> [grounding |-> RatLeq(CheckMark, grounding_score),
                          consistency |-> RatLeq(CheckMark, consistency_score),
                          relevance |-> RatLeq(CheckMark, relevance_score)]]

\* AnswerVerifier.verify_answer; v = [verification_enabled, confidence_threshold]
verify_answer(v, answer, chunks, query, fault) ==
    IF fault = "overall"
    THEN [verified |-> FALSE, error |-> "error", confidence_score |-> Zero]
    ELSE IF ~v.verification_enabled THEN default_verification(chunks)
    ELSE LET grounding_score == verify_grounding(answer, chunks, fault)
             consistency_score == verify_consistency(answer, chunks, fault)
             relevance_score == verify_relevance(answer, query, fault)
             overall_confidence ==
                 RatDivInt(RatAdd(RatAdd(grounding_score, consistency_score),
                                  relevance_score), 3)
         IN  [verified |-> TRUE,
              confidence_score |-> overall_confidence,
              meets_threshold |-> RatLeq(v.confidence_threshold, overall_confidence),
              grounding_score |-> grounding_score,
              consistency_score |-> consistency_score,
              relevance_score |-> relevance_score,
              evidence |-> extract_evidence(chunks),
              checks |-> [grounding |-> RatLeq(CheckMark, grounding_score),
                          consistency |-> RatLeq(CheckMark, consistency_score),
                          relevance |-> RatLeq(CheckMark, relevance_score)]]

-----------------------------------------------------------------------------
(* Query orchestrator: app/services/query_service.py *)

Requests == {"r1"}
SessionIds == {"s1"}

\* top_k of the vector search and the number of chunks kept after reranking
SearchTopK == 10
RerankTopK == 5
HighlightLen == 100

\* d1 | d2 and d[k] = v on dicts
Merge(d1, d2) ==
    [k \in DOMAIN d1 \cup DOMAIN d2 |-> IF k \in DOMAIN d2 THEN d2[k] ELSE d1[k]]
SetKey(d, k, v) == [x \in DOMAIN d \cup {k} |-> IF x = k THEN v ELSE d[x]]

RECURSIVE SortedSeq(_)
\* sorted(S) for a set of integers
SortedSeq(S) == IF S = {} THEN <<>> ELSE <<SetMin(S)>> \o SortedSeq(S \ {SetMin(S)})

RECURSIVE SortByRerankDesc(_)
\* sorted(chunks, key=rerank_score (0 when absent), reverse=True): stable
SortByRerankDesc(chunks) ==
    IF Len(chunks) = 0 THEN <<>>
    ELSE LET key(c) == Get(c, "rerank_score", Zero)
             rest == SortByRerankDesc(SubSeq(chunks, 1, Len(chunks) - 1))
             x == chunks[Len(chunks)]
             ahead == Cardinality({i \in 1..Len(rest) : RatLeq(key(x), key(rest[i]))})
         IN  SubSeq(rest, 1, ahead) \o <<x>> \o SubSeq(rest, ahead + 1, Len(rest))

\* settings.similarity_threshold, the cut Retriever.retrieve applies to the
\* score of a search result
SimilarityThreshold == Rat(1, 2)

\* the chunk dicts _step_retrieve builds from the search results
step_retrieve(search_results) ==
    [i \in 1..Len(search_results) |->
        [chunk_id |-> search_results[i].id,
         text |-> Get(search_results[i].metadata, "text", ""),
         page_number |-> Get(search_results[i].metadata, "page_number", 0),
         document_id |-> Get(search_results[i].metadata, "document_id", ""),
         source_document |-> Get(search_results[i].metadata, "source_document", ""),
         distance |-> search_results[i].distance,
         bbox |-> Get(search_results[i].metadata, "bbox", None)]]

\* _step_rerank, given the scores QueryReranker.rerank returned
step_rerank(retrieved_chunks, rerank_scores) ==
    IF Len(rerank_scores) = 0 THEN retrieved_chunks
    ELSE LET scored == [i \in 1..Len(retrieved_chunks) |->
                 IF i <= Len(rerank_scores)
                 THEN SetKey(retrieved_chunks[i], "rerank_score", rerank_scores[i])
                 ELSE retrieved_chunks[i]]
         IN  Prefix(SortByRerankDesc(scored), RerankTopK)

\* a log line that tolerates a missing answer
LogAnswerLengthTolerant(rag_result) == [raised |-> FALSE]

\* Reranker.rerank_chunks; top_k = 0 stands for None (top_k or
\* settings.top_k_results takes the setting for both)
rerank_chunks(model, chunks, top_k, reply) ==
    IF ~model \/ Len(chunks) = 0 THEN chunks
    ELSE LET k == IF top_k = 0 THEN TopKResults ELSE top_k
             scored_chunks == [i \in 1..Len(chunks) |->
                                  SetKey(chunks[i], "rerank_score", reply.scores[i])]
         IN  IF reply.raise THEN Prefix(chunks, k)
             ELSE Prefix(SortByRerankDesc(scored_chunks), k)

\* line 294: the log line takes len() of the answer, a TypeError on None
LogAnswerLength(rag_result) == [raised |-> Get(rag_result, "answer", "") = None]

\* SourceEvidence list built in _step_verify_answer
BuildEvidence(context_chunks) ==
    [i \in 1..Len(context_chunks) |->
        [page_number |-> context_chunks[i].page_number,
         document |-> context_chunks[i].source_document,
         exact_chunk |-> context_chunks[i].text,
         bbox |-> Get(context_chunks[i], "bbox", None),
         chunk_id |-> context_chunks[i].chunk_id,
         highlighted |-> IF Len(context_chunks[i].text) > HighlightLen
                         THEN Prefix(context_chunks[i].text, HighlightLen) \o "..."
                         ELSE context_chunks[i].text]]

\* the dict _step_verify_answer returns
step_verify_answer(user_query, rag_result, verification) ==
    [query |-> user_query,
     answer |-> Get(rag_result, "answer", ""),
     evidence |-> BuildEvidence(Get(rag_result, "context_chunks", <<>>)),
     confidence_score |-> Get(verification, "confidence_score", Zero),
     tokens_used |-> Get(rag_result, "tokens_used", 0)]

\* final_result of process_query_with_history
FinalResult(verified_result, rag_result) ==
    LET context_chunks == Get(rag_result, "context_chunks", <<>>)
        sources == [i \in 1..Len(context_chunks) |->
            [document |-> Get(context_chunks[i], "source_document", "Unknown"),
             page_number |-> Get(context_chunks[i], "page_number", 0),
             chunk_id |-> Get(context_chunks[i], "chunk_id", "")]]
    IN  Merge(verified_result,
              [sources |-> sources,
               page_numbers |-> SortedSeq({Get(context_chunks[i], "page_number", None) :
                                              i \in 1..Len(context_chunks)}),
               context_used |-> Len(context_chunks)])

NoInformationAnswer ==
    "I could not find any relevant information in the documents to answer your question."

\* a refusal that does not say it was flagged
InputRefusalUnflagged(user_query, mod_result) ==
    [query |-> user_query,
     answer |-> get_violation_message(mod_result, "input"),
     evidence |-> <<>>,
     confidence_score |-> Zero,
     tokens_used |-> 0]

\* the payload returned when input moderation flags the query
InputRefusal(user_query, mod_result) ==
    [query |-> user_query,
     answer |-> get_violation_message(mod_result, "input"),
     evidence |-> <<>>,
     confidence_score |-> Zero,
     tokens_used |-> 0,
     moderation_flagged |-> TRUE,
     moderation_reason |-> "input_policy_violation"]

\* an empty retrieval answered with a blank answer at the disabled-mode confidence
NoInformationResponseBlank(user_query) ==
    [query |-> user_query,
     answer |-> "",
     evidence |-> <<>>,
     confidence_score |-> DisabledConfidence,
     tokens_used |-> 0]

\* the payload returned when retrieval yields nothing
NoInformationResponse(user_query) ==
    [query |-> user_query,
     answer |-> NoInformationAnswer,
     evidence |-> <<>>,
     confidence_score |-> Zero,
     tokens_used |-> 0]

-----------------------------------------------------------------------------
(* State of the service *)

FreeCell == [free |-> TRUE]
NoFile == [exists |-> FALSE]
NoHistory == [is_none |-> TRUE]
NoResponse == [kind |-> "none"]
NoRequest == [user_query |-> "", session_id |-> None]
NoLocals ==
    [chat_memory |-> 0, query_embedding |-> <<>>, chunks |-> <<>>,
     chat_history |-> NoHistory, rag_result |-> EmptyDict]

Payload(body) == [kind |-> "payload", body |-> body]
HTTPException(detail) == [kind |-> "HTTPException", status_code |-> 500, detail |-> detail]

IsFree(cell) == "free" \in DOMAIN cell

\* construction: each client either initialised or not (ContentModerator.
\* _initialize_client, EmbeddingService.__init__, VectorStore._init_chroma,
\* Reranker.__init__, LLMService._initialize_client), settings read once
ModeratorStates == {[enabled |-> TRUE, client |-> TRUE], [enabled |-> FALSE, client |-> FALSE]}

ServiceStates ==
    [embedding_client : BOOLEAN, collection : BOOLEAN, rerank_model : BOOLEAN,
     llm_client : BOOLEAN, verification_enabled : BOOLEAN,
     confidence_threshold : {DefaultThreshold}]

VerifierIdle == [state |-> "idle"]

OrchInit ==
    /\ moderator \in ModeratorStates
    /\ services \in ServiceStates
    /\ sessions = [s \in SessionIds |-> 0]
    /\ heap = [o \in 1..MaxObjects |-> FreeCell]
    /\ disk = [s \in SessionIds |-> NoFile]
    /\ pc = [r \in Requests |-> "idle"]
    /\ req = [r \in Requests |-> NoRequest]
    /\ loc = [r \in Requests |-> NoLocals]
    /\ resp = [r \in Requests |-> NoResponse]
    /\ calls = [r \in Requests |-> {}]
    /\ events = [r \in Requests |-> {}]
    /\ turns = 0

Init ==
    /\ OrchInit
    /\ vin = VerifierIdle
    /\ vout = VerifierIdle
    /\ appended = <<>>

\* objects no session id and no request in flight refers to are collected
Collect(objects, sess, locals) ==
    [o \in DOMAIN objects |->
        IF (\E s \in SessionIds : sess[s] = o) \/ (\E r \in DOMAIN locals : locals[r].chat_memory = o)
        THEN objects[o] ELSE FreeCell]

Finish(r, response) ==
    /\ resp' = [resp EXCEPT ![r] = response]
    /\ pc' = [pc EXCEPT ![r] = "done"]

-----------------------------------------------------------------------------
(* process_query_with_history, one action per await *)

\* POST /query arrives: the coroutine runs up to await check_input
Start(r) ==
    /\ pc[r] = "idle"
    /\ turns < MaxTurns
    /\ \E q \in Queries, sid \in SessionIds \cup {None} :
          req' = [req EXCEPT ![r] = [user_query |-> q, session_id |-> sid]]
    /\ pc' = [pc EXCEPT ![r] = "check_input"]
    /\ turns' = turns + 1
    /\ UNCHANGED <<moderator, services, sessions, heap, disk, loc, resp, calls, events,
                   vin, vout, appended>>

\* get_or_create_session replaced by a session made anew on every request
RecordUserMessageFresh(r, sid, q) ==
    LET fresh == sessions[sid] = 0
        oid == IF fresh THEN CHOOSE o \in DOMAIN heap :
                                /\ IsFree(heap[o])
                                /\ \A p \in DOMAIN heap : IsFree(heap[p]) => o <= p
               ELSE sessions[sid]
    IN  /\ fresh => \E o \in DOMAIN heap : IsFree(heap[o])
        /\ sessions' = [sessions EXCEPT ![sid] = oid]
        /\ heap' = [heap EXCEPT ![oid] =
                        add_user_message(NewChatMemory(sid), q, EmptyDict, FirstInstant)]
        /\ loc' = [loc EXCEPT ![r].chat_memory = oid]

\* create_session in the place of get_or_create_session: every request gets
\* a session object of its own, which takes over the session id
RecordUserMessageOwnObject(r, sid, q) ==
    /\ \E o \in DOMAIN heap : IsFree(heap[o])
    /\ LET oid == CHOOSE o \in DOMAIN heap :
                      /\ IsFree(heap[o])
                      /\ \A p \in DOMAIN heap : IsFree(heap[p]) => o <= p
       IN  /\ sessions' = [sessions EXCEPT ![sid] = oid]
           /\ heap' = [heap EXCEPT ![oid] =
                           add_user_message(NewChatMemory(sid), q, EmptyDict, FirstInstant)]
           /\ loc' = [loc EXCEPT ![r].chat_memory = oid]

\* memory_manager.get_or_create_session, then chat_memory.add_user_message
RecordUserMessage(r, sid, q) ==
    LET fresh == sessions[sid] = 0
        oid == IF fresh THEN CHOOSE o \in DOMAIN heap :
                                /\ IsFree(heap[o])
                                /\ \A p \in DOMAIN heap : IsFree(heap[p]) => o <= p
               ELSE sessions[sid]
        memory == IF fresh THEN NewChatMemory(sid) ELSE heap[oid]
    IN  /\ fresh => \E o \in DOMAIN heap : IsFree(heap[o])
        /\ sessions' = [sessions EXCEPT ![sid] = oid]
        /\ heap' = [heap EXCEPT ![oid] = add_user_message(memory, q, EmptyDict, FirstInstant)]
        /\ loc' = [loc EXCEPT ![r].chat_memory = oid]

\* step 0: check_input returns; refusal, or the user message is recorded and
\* the coroutine runs up to await embed_text
ModerateInput(r) ==
    /\ pc[r] = "check_input"
    /\ \E reply \in ModerationReplies :
          LET q == req[r].user_query
              sid == req[r].session_id
              res == check_input(moderator, q, reply)
          IN  /\ calls' = [calls EXCEPT ![r] = @ \cup {"check_input"}
                    \cup (IF res.is_safe /\ sid # None THEN {"session_store"} ELSE {})]
              /\ events' = [events EXCEPT ![r] = @
                    \cup (IF res.called /\ reply.raise THEN {"input_moderation_failed"} ELSE {})
                    \cup (IF ~res.called THEN {"input_moderation_skipped"} ELSE {})
                    \cup (IF ~res.is_safe THEN {"input_flagged"} ELSE {})
                    \cup (IF res.is_safe /\ sid # None /\ sessions[sid] # 0
                             /\ Len(heap[sessions[sid]].messages) > 0
                          THEN {"prior_messages"} ELSE {})]
              /\ IF ~res.is_safe
                 THEN /\ Finish(r, Payload(InputRefusal(q, res.details)))
                      /\ UNCHANGED <<sessions, heap, loc>>
                 ELSE /\ pc' = [pc EXCEPT ![r] = "embed_text"]
                      /\ UNCHANGED resp
                      /\ IF sid # None
                         THEN RecordUserMessage(r, sid, q)
                         ELSE UNCHANGED <<sessions, heap, loc>>
    /\ UNCHANGED <<moderator, services, disk, req, turns, vin, vout, appended>>

\* step 1: embed_text returns; _step_embed_query hands the vector on
EmbedQuery(r) ==
    /\ pc[r] = "embed_text"
    /\ \E reply \in EmbedReplies :
          LET q == req[r].user_query
              reached == services.embedding_client /\ StripLen(q) > 0
          IN  /\ loc' = [loc EXCEPT ![r].query_embedding =
                            embed_text(services.embedding_client, q, reply)]
              /\ events' = [events EXCEPT ![r] = @
                    \cup (IF ~services.embedding_client
                          THEN {"embedding_unavailable"} ELSE {})
                    \cup (IF reached /\ reply.raise THEN {"embedding_failed"} ELSE {})
                    \cup (IF services.embedding_client /\ ~reached
                          THEN {"blank_query"} ELSE {})]
    /\ calls' = [calls EXCEPT ![r] = @ \cup {"embed_text"}]
    /\ pc' = [pc EXCEPT ![r] = "search"]
    /\ UNCHANGED <<moderator, services, sessions, heap, disk, req, resp, turns, vin, vout, appended>>

\* the two calls in the other order: save_session, then add_assistant_message
RecordAssistantMessageSaveFirst(r, content, metadata, save_reply) ==
    LET oid == loc[r].chat_memory
    IN  /\ heap' = [heap EXCEPT ![oid] =
                        add_assistant_message(@, content, metadata, FirstInstant)]
        /\ disk' = save_session(sessions, heap, disk, req[r].session_id, save_reply)

\* chat_memory.add_assistant_message, then memory_manager.save_session
RecordAssistantMessage(r, content, metadata, save_reply) ==
    LET oid == loc[r].chat_memory
        objects == [heap EXCEPT ![oid] = add_assistant_message(@, content, metadata, FirstInstant)]
    IN  /\ heap' = objects
        /\ disk' = save_session(sessions, objects, disk, req[r].session_id, save_reply)

\* what the file system did to the save of request r
SaveEvents(r, save_reply) ==
    IF loc[r].chat_memory # 0 /\ sessions[req[r].session_id] # 0 /\ save_reply.raise
    THEN {"save_failed"} ELSE {}

\* step 2: search returns; no chunks ends the request with the
\* no-information payload, else the coroutine runs up to await rerank
Retrieve(r) ==
    /\ pc[r] = "search"
    /\ \E reply \in SearchReplies, save_reply \in SaveReplies :
          LET emb == loc[r].query_embedding
              executed == Len(emb) > 0 /\ services.collection
              retrieved_chunks ==
                  step_retrieve(search(services.collection, emb, SearchTopK, reply))
              happened ==
                  (IF Len(emb) > 0 /\ ~services.collection
                   THEN {"search_unavailable"} ELSE {})
                  \cup (IF executed /\ reply.raise THEN {"search_failed"} ELSE {})
                  \cup (IF executed /\ ~reply.raise /\ Len(reply.hits) = 0
                        THEN {"no_match"} ELSE {})
          IN  IF Len(retrieved_chunks) = 0
              THEN /\ Finish(r, Payload(NoInformationResponse(req[r].user_query)))
                   /\ IF loc[r].chat_memory # 0
                      THEN RecordAssistantMessage(r, NoInformationAnswer, EmptyDict, save_reply)
                      ELSE UNCHANGED <<heap, disk>>
                   /\ events' = [events EXCEPT ![r] = @ \cup happened
                                                     \cup SaveEvents(r, save_reply)]
                   /\ UNCHANGED loc
              ELSE /\ pc' = [pc EXCEPT ![r] = "rerank"]
                   /\ loc' = [loc EXCEPT ![r].chunks = retrieved_chunks]
                   /\ events' = [events EXCEPT ![r] = @ \cup happened]
                   /\ UNCHANGED <<resp, heap, disk>>
    /\ calls' = [calls EXCEPT ![r] = @ \cup {"search"}]
    /\ UNCHANGED <<moderator, services, sessions, req, turns, vin, vout, appended>>

\* step 3: rerank returns; _step_rerank orders the chunks, the transcript is
\* taken, and the coroutine runs up to the generation call
Rerank(r) ==
    /\ pc[r] = "rerank"
    /\ \E reply \in RerankReplies(Len(loc[r].chunks)) :
          LET retrieved_chunks == loc[r].chunks
              chunk_texts == [i \in 1..Len(retrieved_chunks) |-> retrieved_chunks[i].text]
              rerank_scores == rerank(services.rerank_model, chunk_texts, reply)
              oid == loc[r].chat_memory
              chat_history_text ==
                  IF oid # 0 /\ Len(heap[oid].messages) > 1
                  THEN [is_none |-> FALSE, transcript |-> get_context_for_llm(heap[oid], 4)]
                  ELSE NoHistory
          IN  /\ loc' = [loc EXCEPT ![r].chunks = step_rerank(retrieved_chunks, rerank_scores),
                                   ![r].chat_history = chat_history_text]
              /\ events' = [events EXCEPT ![r] = @ \cup
                    (IF ~services.rerank_model \/ reply.raise THEN {"rerank_failed"} ELSE {})]
    /\ calls' = [calls EXCEPT ![r] = @ \cup {"rerank"}]
    /\ pc' = [pc EXCEPT ![r] = "generate"]
    /\ UNCHANGED <<moderator, services, sessions, heap, disk, req, resp, turns, vin, vout, appended>>

\* step 4: generate_grounded_answer returns; _step_generate_answer logs the
\* answer length and runs up to await check_output
Generate(r) ==
    /\ pc[r] = "generate"
    /\ \E reply \in GenReplies :
          LET rag_result == generate_grounded_answer(services.llm_client, loc[r].chunks,
                                                     loc[r].chat_history, reply)
          IN  /\ events' = [events EXCEPT ![r] = @ \cup
                    (IF ~rag_result.success THEN {"generation_failed"} ELSE {})]
              /\ IF LogAnswerLength(rag_result).raised
                 THEN /\ Finish(r, HTTPException("Answer generation failed"))
                      /\ UNCHANGED loc
                 ELSE /\ pc' = [pc EXCEPT ![r] = "check_output"]
                      /\ loc' = [loc EXCEPT ![r].rag_result = rag_result]
                      /\ UNCHANGED resp
    /\ calls' = [calls EXCEPT ![r] = @ \cup {"generate"}]
    /\ UNCHANGED <<moderator, services, sessions, heap, disk, req, turns, vin, vout, appended>>

\* step 4b: check_output returns; a flagged answer is replaced, and the
\* coroutine runs up to await verify_answer
ModerateOutput(r) ==
    /\ pc[r] = "check_output"
    /\ \E reply \in ModerationReplies :
          LET rag_result == loc[r].rag_result
              res == check_output(moderator, Get(rag_result, "answer", ""), reply)
              marked ==
                  IF ~res.is_safe
                  THEN Merge(rag_result,
                             [answer |-> get_violation_message(res.details, "output"),
                              moderation_flagged |-> TRUE,
                              moderation_reason |-> "output_policy_violation"])
                  ELSE SetKey(rag_result, "moderation_flagged", FALSE)
          IN  /\ events' = [events EXCEPT ![r] = @
                    \cup (IF res.called /\ reply.raise THEN {"output_moderation_failed"} ELSE {})
                    \cup (IF ~res.called THEN {"output_moderation_skipped"} ELSE {})
                    \cup (IF ~res.is_safe THEN {"output_flagged"} ELSE {})]
              /\ IF res.raised
                 THEN /\ Finish(r, HTTPException("Answer generation failed"))
                      /\ UNCHANGED loc
                 ELSE /\ pc' = [pc EXCEPT ![r] = "verify_answer"]
                      /\ loc' = [loc EXCEPT ![r].rag_result =
                                    SetKey(marked, "context_chunks", loc[r].chunks)]
                      /\ UNCHANGED resp
    /\ calls' = [calls EXCEPT ![r] = @ \cup {"check_output"}]
    /\ UNCHANGED <<moderator, services, sessions, heap, disk, req, turns, vin, vout, appended>>

\* step 5: verify_answer returns; the response is assembled, the assistant
\* message recorded and saved, and the payload returned
Verify(r) ==
    /\ pc[r] = "verify_answer"
    /\ \E fault \in VerifierFaults :
       \E verification \in {verify_answer(services, Get(loc[r].rag_result, "answer", ""),
                                          Get(loc[r].rag_result, "context_chunks", <<>>),
                                          req[r].user_query, fault)} :
       \E verified_result \in {step_verify_answer(req[r].user_query, loc[r].rag_result,
                                                  verification)} :
       \E final_result \in {FinalResult(verified_result, loc[r].rag_result)} :
       \E save_reply \in SaveReplies :
          LET metadata ==
                  [documents_used |-> [i \in 1..Len(final_result.sources) |->
                                          final_result.sources[i].document],
                   confidence_score |-> Get(verified_result, "confidence_score", Zero)]
          IN  /\ Finish(r, Payload(final_result))
              /\ vin' = [answer |-> Get(loc[r].rag_result, "answer", ""),
                         context_chunks |-> Get(loc[r].rag_result, "context_chunks", <<>>),
                         query |-> req[r].user_query,
                         verifier |-> [verification_enabled |-> services.verification_enabled,
                                       confidence_threshold |-> services.confidence_threshold],
                         fault |-> fault]
              /\ vout' = verification
              /\ IF loc[r].chat_memory # 0
                 THEN RecordAssistantMessage(r, Get(verified_result, "answer", ""),
                                             metadata, save_reply)
                 ELSE UNCHANGED <<heap, disk>>
              /\ events' = [events EXCEPT ![r] = @
                    \cup (IF fault # "none" THEN {"verifier_fault_" \o fault} ELSE {})
                    \cup SaveEvents(r, save_reply)]
    /\ calls' = [calls EXCEPT ![r] = @ \cup {"verify_answer"}]
    /\ UNCHANGED <<moderator, services, sessions, loc, req, turns, appended>>

\* the caller has the response; the coroutine's frame is gone
Return(r) ==
    /\ pc[r] = "done"
    /\ pc' = [pc EXCEPT ![r] = "idle"]
    /\ req' = [req EXCEPT ![r] = NoRequest]
    /\ loc' = [loc EXCEPT ![r] = NoLocals]
    /\ resp' = [resp EXCEPT ![r] = NoResponse]
    /\ calls' = [calls EXCEPT ![r] = {}]
    /\ events' = [events EXCEPT ![r] = {}]
    /\ heap' = Collect(heap, sessions, [loc EXCEPT ![r] = NoLocals])
    /\ vin' = VerifierIdle
    /\ vout' = VerifierIdle
    /\ UNCHANGED <<moderator, services, sessions, disk, turns, appended>>

\* delete_session that forgets the session and leaves its file
delete_session_map_only(sid) ==
    /\ sessions[sid] # 0
    /\ sessions' = [sessions EXCEPT ![sid] = 0]
    /\ heap' = Collect(heap, [sessions EXCEPT ![sid] = 0], loc)
    /\ UNCHANGED disk

\* ChatMemoryManager.delete_session: the map entry and the file go
delete_session(sid) ==
    /\ sessions[sid] # 0 \/ disk[sid] # NoFile
    /\ sessions' = [sessions EXCEPT ![sid] = 0]
    /\ disk' = [disk EXCEPT ![sid] = NoFile]
    /\ heap' = Collect(heap, [sessions EXCEPT ![sid] = 0], loc)

\* DELETE /chat/history/{session_id}
DeleteSession(sid) ==
    /\ delete_session(sid)
    /\ UNCHANGED <<moderator, services, pc, req, loc, resp, calls, events, turns, vin, vout, appended>>

\* what the requests in flight for session sid note when it is deleted: the
\* ones that hold the session, and the ones still in input moderation
DeletionNoted(sid) ==
    [r \in DOMAIN events |->
        events[r]
        \cup (IF /\ pc[r] \notin {"idle", "done"} /\ req[r].session_id = sid
                 /\ loc[r].chat_memory # 0 /\ loc[r].chat_memory = sessions[sid]
              THEN {"session_deleted"} ELSE {})
        \cup (IF pc[r] = "check_input" /\ req[r].session_id = sid
              THEN {"deleted_before_recording"} ELSE {})]

\* DELETE /chat/history/{session_id}, noted by the requests in flight
DeleteSessionNoted(sid) ==
    /\ delete_session(sid)
    /\ events' = DeletionNoted(sid)
    /\ UNCHANGED <<moderator, services, pc, req, loc, resp, calls, turns, vin, vout, appended>>

Next ==
    \/ \E r \in Requests : Start(r)
    \/ \E r \in Requests : ModerateInput(r)
    \/ \E r \in Requests : EmbedQuery(r)
    \/ \E r \in Requests : Retrieve(r)
    \/ \E r \in Requests : Rerank(r)
    \/ \E r \in Requests : Generate(r)
    \/ \E r \in Requests : ModerateOutput(r)
    \/ \E r \in Requests : Verify(r)
    \/ \E r \in Requests : Return(r)
    \/ \E sid \in SessionIds : DeleteSession(sid)

Spec == Init /\ [][Next]_vars

-----------------------------------------------------------------------------
(* verify_answer on its own: every call of a bounded sample of arguments *)

SampleAnswers ==
    {"Take 5 mg daily.", "Do not take it. Never exceed 5 mg.", "Store it cold", "", None}

SampleChunkLists == {<<>>, step_retrieve(<<HitA>>), step_retrieve(<<HitA, HitB>>)}

\* settings.confidence_threshold as configured: the default, and values on
\* either side of the confidence the disabled verifier reports
SampleThresholds == {DefaultThreshold, Rat(9, 10), Zero, One}

SampleVerifiers ==
    [verification_enabled : BOOLEAN, confidence_threshold : SampleThresholds]

VerifierInit ==
    /\ Init
    /\ moderator.enabled
    /\ services.verification_enabled
    /\ \A c \in {"embedding_client", "collection", "rerank_model", "llm_client"} : services[c]

\* one call of AnswerVerifier.verify_answer (the verifier keeps no state
\* between calls, so each behaviour makes one)
VerifyCall ==
    /\ vin = VerifierIdle
    /\ \E answer \in SampleAnswers, chunks \in SampleChunkLists, query \in Queries,
          v \in SampleVerifiers, fault \in VerifierFaults :
          /\ vin' = [answer |-> answer, context_chunks |-> chunks, query |-> query,
                     verifier |-> v, fault |-> fault]
          /\ vout' = verify_answer(v, answer, chunks, query, fault)
    /\ UNCHANGED orchVars

VerifierNext == VerifyCall

SpecVerifier == VerifierInit /\ [][VerifierNext]_vars

-----------------------------------------------------------------------------
(* The two rerankers on their own: one call on a bounded sample of          *)
(* candidate lists, in every state of the scoring model                     *)

SampleCandidates ==
    {<<>>, step_retrieve(<<HitA>>), step_retrieve(<<HitA, HitB>>),
     step_retrieve(<<HitA, HitB, HitC>>)}

\* top_k of rerank_chunks: None (0), or a number
SampleTopK == {0, 1, 2}

RerankerInit == VerifierInit

\* one call of Reranker.rerank_chunks
RerankChunksCall ==
    /\ vin = VerifierIdle
    /\ \E model \in BOOLEAN, chunks \in SampleCandidates, top_k \in SampleTopK :
       \E reply \in RerankReplies(Len(chunks)) :
          /\ vin' = [op |-> "rerank_chunks", model |-> model, chunks |-> chunks,
                     top_k |-> IF top_k = 0 THEN TopKResults ELSE top_k, reply |-> reply]
          /\ vout' = [chunks |-> rerank_chunks(model, chunks, top_k, reply)]
    /\ UNCHANGED orchVars

\* one call of QueryService._step_rerank, through QueryReranker.rerank
StepRerankCall ==
    /\ vin = VerifierIdle
    /\ \E model \in BOOLEAN, chunks \in SampleCandidates \ {<<>>} :
       \E reply \in RerankReplies(Len(chunks)) :
          /\ vin' = [op |-> "step_rerank", model |-> model, chunks |-> chunks,
                     top_k |-> RerankTopK, reply |-> reply]
          /\ vout' = [chunks |->
                        step_rerank(chunks,
                                    rerank(model,
                                           [i \in 1..Len(chunks) |-> chunks[i].text],
                                           reply))]
    /\ UNCHANGED orchVars

RerankerNext == RerankChunksCall \/ StepRerankCall

SpecReranker == RerankerInit /\ [][RerankerNext]_vars

-----------------------------------------------------------------------------
(* The orchestrator started with a session left by earlier requests, all    *)
(* clients initialised and verification switched off in the settings        *)

\* what session "s1" holds when the request arrives: nothing (no session yet),
\* the user message of a request that ended in a service error, or a
\* completed turn
SamplePriorHistories ==
    {<<>>,
     <<ConversationMessage("user", "What dose?", None, EmptyDict, FirstInstant)>>,
     <<ConversationMessage("user", "What dose?", None, EmptyDict, FirstInstant),
       ConversationMessage("assistant", "Take 5 mg daily.", None,
                           [documents_used |-> <<"a.pdf">>, confidence_score |-> Rat(4, 5)],
                           FirstInstant)>>}

\* the session object holding the messages msgs
SessionWith(msgs) ==
    [NewChatMemory("s1") EXCEPT
        !.messages = msgs,
        !.documents_used = IF Len(msgs) = 2 THEN {"a.pdf"} ELSE {}]

HistoryInit ==
    /\ moderator \in ModeratorStates /\ moderator.enabled /\ moderator.client
    /\ services \in ServiceStates /\ ~services.verification_enabled
    /\ \A c \in {"embedding_client", "collection", "rerank_model", "llm_client"} : services[c]
    /\ \E msgs \in SamplePriorHistories :
          /\ sessions = [s \in SessionIds |-> IF Len(msgs) = 0 THEN 0 ELSE 1]
          /\ heap = [o \in 1..MaxObjects |->
                        IF o = 1 /\ Len(msgs) > 0 THEN SessionWith(msgs) ELSE FreeCell]
          /\ disk = [s \in SessionIds |->
                        IF Len(msgs) = 2 THEN ChatMemoryToDict(SessionWith(msgs))
                        ELSE NoFile]
    /\ pc = [r \in Requests |-> "idle"]
    /\ req = [r \in Requests |-> NoRequest]
    /\ loc = [r \in Requests |-> NoLocals]
    /\ resp = [r \in Requests |-> NoResponse]
    /\ calls = [r \in Requests |-> {}]
    /\ events = [r \in Requests |-> {}]
    /\ turns = 0
    /\ vin = VerifierIdle
    /\ vout = VerifierIdle
    /\ appended = <<>>

SpecHistory == HistoryInit /\ [][Next]_vars

-----------------------------------------------------------------------------
(* Two requests on the same session, interleaved at the awaits of           *)
(* process_query_with_history; every client but the cross-encoder is        *)
(* initialised, verification is switched off, there is no session yet.      *)
(* The responses stay in place, so the final state shows what each request  *)
(* did.                                                                     *)

ConcurrentRequests == {"r1", "r2"}

ConcurrentInit ==
    /\ moderator \in ModeratorStates /\ moderator.enabled /\ moderator.client
    /\ services \in ServiceStates /\ ~services.verification_enabled
    /\ \A c \in {"embedding_client", "collection", "llm_client"} : services[c]
    /\ ~services.rerank_model
    /\ sessions = [s \in SessionIds |-> 0]
    /\ heap = [o \in 1..MaxObjects |-> FreeCell]
    /\ disk = [s \in SessionIds |-> NoFile]
    /\ pc = [r \in ConcurrentRequests |-> "idle"]
    /\ req = [r \in ConcurrentRequests |-> NoRequest]
    /\ loc = [r \in ConcurrentRequests |-> NoLocals]
    /\ resp = [r \in ConcurrentRequests |-> NoResponse]
    /\ calls = [r \in ConcurrentRequests |-> {}]
    /\ events = [r \in ConcurrentRequests |-> {}]
    /\ turns = 0
    /\ vin = VerifierIdle
    /\ vout = VerifierIdle
    /\ appended = <<>>

\* a request for session "s1" arrives while the other may be in flight
StartConcurrent(r) ==
    /\ pc[r] = "idle"
    /\ turns < Cardinality(ConcurrentRequests)
    /\ req' = [req EXCEPT ![r] = [user_query |-> "What dose?", session_id |-> "s1"]]
    /\ pc' = [pc EXCEPT ![r] = "check_input"]
    /\ turns' = turns + 1
    /\ UNCHANGED <<moderator, services, sessions, heap, disk, loc, resp, calls, events,
                   vin, vout, appended>>

ConcurrentNext ==
    \/ \E r \in ConcurrentRequests : StartConcurrent(r)
    \/ \E r \in ConcurrentRequests : ModerateInput(r)
    \/ \E r \in ConcurrentRequests : EmbedQuery(r)
    \/ \E r \in ConcurrentRequests : Retrieve(r)
    \/ \E r \in ConcurrentRequests : Rerank(r)
    \/ \E r \in ConcurrentRequests : Generate(r)
    \/ \E r \in ConcurrentRequests : ModerateOutput(r)
    \/ \E r \in ConcurrentRequests : Verify(r)

SpecConcurrent == ConcurrentInit /\ [][ConcurrentNext]_vars

-----------------------------------------------------------------------------
(* Two requests on the same session and deletions of that session, in any   *)
(* order; moderation is switched off and the collection is not initialised, *)
(* so every request takes the no-information path.                          *)

DeletionInit ==
    /\ moderator \in ModeratorStates /\ ~moderator.enabled
    /\ services \in ServiceStates /\ ~services.verification_enabled
    /\ \A c \in {"embedding_client", "rerank_model", "llm_client"} : services[c]
    /\ ~services.collection
    /\ sessions = [s \in SessionIds |-> 0]
    /\ heap = [o \in 1..MaxObjects |-> FreeCell]
    /\ disk = [s \in SessionIds |-> NoFile]
    /\ pc = [r \in ConcurrentRequests |-> "idle"]
    /\ req = [r \in ConcurrentRequests |-> NoRequest]
    /\ loc = [r \in ConcurrentRequests |-> NoLocals]
    /\ resp = [r \in ConcurrentRequests |-> NoResponse]
    /\ calls = [r \in ConcurrentRequests |-> {}]
    /\ events = [r \in ConcurrentRequests |-> {}]
    /\ turns = 0
    /\ vin = VerifierIdle
    /\ vout = VerifierIdle
    /\ appended = <<>>

DeletionNext ==
    \/ \E r \in ConcurrentRequests : StartConcurrent(r)
    \/ \E r \in ConcurrentRequests : ModerateInput(r)
    \/ \E r \in ConcurrentRequests : EmbedQuery(r)
    \/ \E r \in ConcurrentRequests : Retrieve(r)
    \/ \E sid \in SessionIds : DeleteSessionNoted(sid)

SpecDeletion == DeletionInit /\ [][DeletionNext]_vars

-----------------------------------------------------------------------------
(* The chat memory on its own: one session object (heap cell 1, registered  *)
(* with the manager under "s1") of a sampled capacity, appended to, cleared *)
(* and saved; from_dict and load_session are each called once, last         *)

\* appends to the session in one behaviour
MaxAppends == 3

\* (max_messages, max_tokens) of the session under study
SampleConfigs ==
    {[max_messages |-> 1, max_tokens |-> DefaultMaxTokens],
     [max_messages |-> 2, max_tokens |-> DefaultMaxTokens],
     [max_messages |-> 2, max_tokens |-> 150],
     [max_messages |-> 2, max_tokens |-> 100],
     [max_messages |-> DefaultMaxMessages, max_tokens |-> DefaultMaxTokens]}

\* max_messages handed to from_dict
SampleCapacities == {1, DefaultMaxMessages}

\* metadata of an assistant message: none, or what process_query_with_history
\* records
SampleMetadata ==
    {EmptyDict, [documents_used |-> <<"a.pdf">>, confidence_score |-> Rat(4, 5)]}

MemoryInit ==
    /\ moderator \in ModeratorStates /\ moderator.enabled /\ moderator.client
    /\ services \in ServiceStates /\ services.verification_enabled
    /\ \A c \in {"embedding_client", "collection", "rerank_model", "llm_client"} : services[c]
    /\ sessions = [s \in SessionIds |-> 1]
    /\ \E cfg \in SampleConfigs :
          heap = [o \in 1..MaxObjects |->
                     IF o = 1 THEN ChatMemory("s1", cfg.max_messages, cfg.max_tokens)
                     ELSE FreeCell]
    /\ disk = [s \in SessionIds |-> NoFile]
    /\ pc = [r \in Requests |-> "idle"]
    /\ req = [r \in Requests |-> NoRequest]
    /\ loc = [r \in Requests |-> NoLocals]
    /\ resp = [r \in Requests |-> NoResponse]
    /\ calls = [r \in Requests |-> {}]
    /\ events = [r \in Requests |-> {}]
    /\ turns = 0
    /\ vin = VerifierIdle
    /\ vout = VerifierIdle
    /\ appended = <<>>

memVars == <<moderator, services, pc, req, loc, resp, calls, events, turns>>

\* the clock does not run backwards: the readings an append can get, given
\* the messages stamped before it
Readings(msgs) ==
    IF \E i \in 1..Len(msgs) : msgs[i].timestamp # FirstInstant
    THEN Instants \ {FirstInstant}
    ELSE Instants

AddUserMessage ==
    /\ vin = VerifierIdle
    /\ Len(appended) < MaxAppends
    /\ \E now \in Readings(appended) :
          /\ heap' = [heap EXCEPT ![1] = add_user_message(@, "What dose?", EmptyDict, now)]
          /\ appended' = Append(appended,
                ConversationMessage("user", "What dose?", None, EmptyDict, now))
    /\ UNCHANGED <<memVars, sessions, disk, vin, vout>>

AddAssistantMessage ==
    /\ vin = VerifierIdle
    /\ Len(appended) < MaxAppends
    /\ \E now \in Readings(appended), metadata \in SampleMetadata :
          /\ heap' = [heap EXCEPT ![1] =
                add_assistant_message(@, "Take 5 mg daily.", metadata, now)]
          /\ appended' = Append(appended,
                ConversationMessage("assistant", "Take 5 mg daily.", None, metadata, now))
    /\ UNCHANGED <<memVars, sessions, disk, vin, vout>>

ClearHistory ==
    /\ vin = VerifierIdle
    /\ Len(appended) > 0
    /\ heap' = [heap EXCEPT ![1] = clear_history(@)]
    /\ appended' = <<>>
    /\ UNCHANGED <<memVars, sessions, disk, vin, vout>>

SaveSession ==
    /\ vin = VerifierIdle
    /\ \E reply \in SaveReplies :
          disk' = save_session(sessions, heap, disk, "s1", reply)
    /\ UNCHANGED <<memVars, sessions, heap, vin, vout, appended>>

\* ChatMemory.from_dict(m.to_dict(), max_messages)
FromDict ==
    /\ vin = VerifierIdle
    /\ \E max_messages \in SampleCapacities, now \in Instants :
          /\ vin' = [op |-> "from_dict", memory |-> heap[1], max_messages |-> max_messages]
          /\ vout' = [found |-> TRUE,
                      memory |-> ChatMemoryFromDict(ChatMemoryToDict(heap[1]),
                                                    max_messages, now)]
    /\ UNCHANGED <<memVars, sessions, heap, disk, appended>>

\* memory_manager.load_session("s1"): the rebuilt session replaces the
\* registered one
LoadSession ==
    /\ vin = VerifierIdle
    /\ \E now \in Instants :
          \E loaded \in {load_session(disk, "s1", now)} :
              /\ vin' = [op |-> "load_session", memory |-> heap[sessions["s1"]],
                         file |-> disk["s1"]]
              /\ vout' = loaded
              /\ IF loaded.found
                 THEN /\ heap' = [heap EXCEPT ![2] = loaded.memory]
                      /\ sessions' = [sessions EXCEPT !["s1"] = 2]
                 ELSE UNCHANGED <<heap, sessions>>
    /\ UNCHANGED <<memVars, disk, appended>>

MemoryNext ==
    \/ AddUserMessage
    \/ AddAssistantMessage
    \/ ClearHistory
    \/ SaveSession
    \/ FromDict
    \/ LoadSession

SpecMemory == MemoryInit /\ [][MemoryNext]_vars

-----------------------------------------------------------------------------
(* The moderator on its own: one call of check_input or check_output on a   *)
(* sampled text, answered by a sampled classification.                      *)

\* categories of the moderation endpoint: the four checked ones and two more
SampleCategories ==
    {"hate", "hate/threatening", "violence", "harassment", "sexual", "self-harm"}

\* client.moderations.create raises, or flags any set of categories
SampleClassifications ==
    {[raise |-> TRUE]} \cup {[raise |-> FALSE, cats |-> c] : c \in SUBSET SampleCategories}

\* the moderator enabled with a client, or switched off
ModeratorInit ==
    /\ Init
    /\ services.verification_enabled
    /\ \A c \in {"embedding_client", "collection", "rerank_model", "llm_client"} : services[c]

ModerationCall ==
    /\ vin = VerifierIdle
    /\ \E stage \in {"input", "output"}, text \in {"What dose?", "a", ""},
          reply \in SampleClassifications :
          \E res \in {IF stage = "input" THEN check_input(moderator, text, reply)
                      ELSE check_output(moderator, text, reply)} :
              /\ vin' = [op |-> "check_" \o stage, text |-> text, reply |-> reply]
              /\ vout' = [is_safe |-> res.is_safe,
                          details |-> res.details,
                          message |-> get_violation_message(res.details, stage)]
    /\ UNCHANGED orchVars

ModeratorNext == ModerationCall

SpecModerator == ModeratorInit /\ [][ModeratorNext]_vars

-----------------------------------------------------------------------------
(* The consistency score on its own: one call of _verify_consistency on a   *)
(* sampled answer and up to two sampled chunks.                             *)

NegationAnswers ==
    {"Take 5 mg daily.", "Do not take it. Never exceed 5 mg.", "NOT cold",
     "No, it cannot be frozen", "no not never cannot", "say no", "", None}

\* chunks without text, with blank text, with and without negation markers,
\* and one whose text ends in "no"
NegationChunks ==
    {[chunk_id |-> "c0"],
     [chunk_id |-> "c1", text |-> " "],
     [chunk_id |-> "c2", text |-> "Take 5 mg daily."],
     [chunk_id |-> "c3", text |-> "Do not freeze."],
     [chunk_id |-> "c4", text |-> "Never say no"]}

NegationChunkLists ==
    {<<>>} \cup {<<c>> : c \in NegationChunks}
           \cup {<<c, d>> : c \in NegationChunks, d \in NegationChunks}

ConsistencyInit == VerifierInit

ConsistencyCall ==
    /\ vin = VerifierIdle
    /\ \E answer \in NegationAnswers, chunks \in NegationChunkLists,
          fault \in {"none", "consistency"} :
          /\ vin' = [op |-> "verify_consistency", answer |-> answer,
                     context_chunks |-> chunks, fault |-> fault]
          /\ vout' = [score |-> verify_consistency(answer, chunks, fault)]
    /\ UNCHANGED orchVars

ConsistencyNext == ConsistencyCall

SpecConsistency == ConsistencyInit /\ [][ConsistencyNext]_vars

-----------------------------------------------------------------------------
(* The documents a session has used: appends only, on a session of a        *)
(* sampled capacity, with metadata on user messages as well.                *)

\* metadata of a user message: none (as process_query_with_history leaves
\* it), or a dict that names a document
SampleUserMetadata == {EmptyDict, [documents_used |-> <<"b.pdf">>]}

\* metadata of an assistant message: none, no source, one, two
SampleAssistantMetadata ==
    {EmptyDict,
     [documents_used |-> <<>>, confidence_score |-> Zero],
     [documents_used |-> <<"a.pdf">>, confidence_score |-> Rat(4, 5)],
     [documents_used |-> <<"a.pdf", "c.pdf">>, confidence_score |-> Rat(4, 5)]}

DocumentsInit ==
    /\ MemoryInit
    /\ heap[1].max_tokens = DefaultMaxTokens

AppendUserMessage ==
    /\ Len(appended) < MaxAppends
    /\ \E metadata \in SampleUserMetadata :
          /\ heap' = [heap EXCEPT ![1] =
                add_user_message(@, "What dose?", metadata, FirstInstant)]
          /\ appended' = Append(appended,
                ConversationMessage("user", "What dose?", None, metadata, FirstInstant))
    /\ UNCHANGED <<memVars, sessions, disk, vin, vout>>

AppendAssistantMessage ==
    /\ Len(appended) < MaxAppends
    /\ \E metadata \in SampleAssistantMetadata :
          /\ heap' = [heap EXCEPT ![1] =
                add_assistant_message(@, "Take 5 mg daily.", metadata, FirstInstant)]
          /\ appended' = Append(appended,
                ConversationMessage("assistant", "Take 5 mg daily.", None, metadata,
                                    FirstInstant))
    /\ UNCHANGED <<memVars, sessions, disk, vin, vout>>

DocumentsNext == AppendUserMessage \/ AppendAssistantMessage

SpecDocuments == DocumentsInit /\ [][DocumentsNext]_vars

-----------------------------------------------------------------------------
(* The text chunker (app/chunking/chunker.py) *)

\* settings.chunk_size, settings.chunk_overlap
SettingsChunkSize == 500
SettingsChunkOverlap == 100

\* the length below which a stripped window is skipped
MinChunkChars == 50

\* an optional integer argument: None, or a value
NoArg == [is_none |-> TRUE]
IntArg(n) == [is_none |-> FALSE, value |-> n]

\* `arg or default`
OrDefault(arg, default) ==
    IF arg.is_none \/ arg.value = 0 THEN default ELSE arg.value

\* TextChunker.__init__
TextChunker(chunk_size, chunk_overlap) ==
    [chunk_size |-> OrDefault(chunk_size, SettingsChunkSize),
     chunk_overlap |-> OrDefault(chunk_overlap, SettingsChunkOverlap)]

RECURSIVE RangeFromZero(_, _, _)
\* list(range(start, stop, step)) for step > 0
RangeFromZero(start, stop, step) ==
    IF start >= stop THEN <<>> ELSE <<start>> \o RangeFromZero(start + step, stop, step)

\* range(0, len(text), step): nothing for a negative step, ValueError for 0
WindowOffsets(text, step) ==
    IF step = 0 THEN [raised |-> TRUE, offsets |-> <<>>]
    ELSE IF step < 0 THEN [raised |-> FALSE, offsets |-> <<>>]
    ELSE [raised |-> FALSE, offsets |-> RangeFromZero(0, Len(text), step)]

\* text[i : i + size]
Slice(text, i, size) ==
    SubSeq(text, i + 1, IF i + size < Len(text) THEN i + size ELSE Len(text))

RECURSIVE Words(_)
\* s.split()
Words(s) ==
    LET t == LStrip(s)
        sp == FindFirst(t, " ")
    IN  IF Len(t) = 0 THEN <<>>
        ELSE IF sp = 0 THEN <<t>>
        ELSE <<SubSeq(t, 1, sp - 1)>> \o Words(SubSeq(t, sp + 1, Len(t)))

\* a bounding box that is None
NoBBox == <<>>

\* TextChunker._get_bbox_for_chunk: the box of the first dict block that
\* holds one of the chunk's first five words
get_bbox_for_chunk(chunk_text, blocks) ==
    LET chunk_words == Prefix(Words(chunk_text), 5)
        hits == {k \in 1..Len(blocks) :
                    /\ blocks[k].is_dict
                    /\ "bbox" \in DOMAIN blocks[k]
                    /\ \E w \in 1..Len(chunk_words) :
                          Contains(Get(blocks[k], "text", ""), chunk_words[w])}
    IN  IF Len(blocks) = 0 \/ hits = {} THEN NoBBox
        ELSE LET bbox == blocks[CHOOSE k \in hits : \A j \in hits : k <= j].bbox
             IN  IF Len(bbox) >= 4 THEN bbox ELSE NoBBox

\* the digits of a natural number
Digit(n) ==
    CASE n = 0 -> "0" [] n = 1 -> "1" [] n = 2 -> "2" [] n = 3 -> "3" [] n = 4 -> "4"
      [] n = 5 -> "5" [] n = 6 -> "6" [] n = 7 -> "7" [] n = 8 -> "8" [] n = 9 -> "9"

RECURSIVE IntStr(_)
\* str(n) for n >= 0
IntStr(n) == IF n < 10 THEN Digit(n) ELSE IntStr(n \div 10) \o Digit(n % 10)

\* a chunk id without the page number
ChunkIdWithoutPage(document_id, page_number, chunk_index) ==
    document_id \o "_c" \o IntStr(chunk_index)

\* f"{document_id}_p{page_number}_c{chunk_index}"
ChunkId(document_id, page_number, chunk_index) ==
    document_id \o "_p" \o IntStr(page_number) \o "_c" \o IntStr(chunk_index)

\* the window is kept whatever blanks it is made of
KeepWindowUnstripped(chunk_text) == Len(chunk_text) >= MinChunkChars

\* not (len(chunk_text.strip()) < 50)
KeepWindow(chunk_text) == Len(Strip(chunk_text)) >= MinChunkChars

RECURSIVE ChunkWindows(_, _, _, _, _, _)
\* the loop of chunk_page_content over the offsets still to come
ChunkWindows(chunker, page_content, document_id, source_document, offsets, chunk_index) ==
    IF Len(offsets) = 0 THEN <<>>
    ELSE LET text == Get(page_content, "text", "")
             page_number == Get(page_content, "page_number", 0)
             chunk_text == Slice(text, Head(offsets), chunker.chunk_size)
         IN  IF ~KeepWindow(chunk_text)
             THEN ChunkWindows(chunker, page_content, document_id, source_document,
                               Tail(offsets), chunk_index)
             ELSE <<[chunk_id |-> ChunkId(document_id, page_number, chunk_index),
                     text |-> chunk_text,
                     page_number |-> page_number,
                     chunk_index |-> chunk_index,
                     bbox |-> get_bbox_for_chunk(chunk_text, Get(page_content, "blocks", <<>>)),
                     document_id |-> document_id,
                     source_document |-> source_document,
                     extraction_type |-> Get(page_content, "pdf_type", "text")]>>
                  \o ChunkWindows(chunker, page_content, document_id, source_document,
                                  Tail(offsets), chunk_index + 1)

\* TextChunker.chunk_page_content; any exception gives []
chunk_page_content(chunker, page_content, document_id, source_document) ==
    LET range == WindowOffsets(Get(page_content, "text", ""),
                               chunker.chunk_size - chunker.chunk_overlap)
    IN  IF range.raised THEN <<>>
        ELSE ChunkWindows(chunker, page_content, document_id, source_document,
                          range.offsets, 0)

RECURSIVE chunk_documents(_, _, _, _)
\* TextChunker.chunk_documents
chunk_documents(chunker, pages_content, document_id, source_document) ==
    IF Len(pages_content) = 0 THEN <<>>
    ELSE chunk_page_content(chunker, Head(pages_content), document_id, source_document)
         \o chunk_documents(chunker, Tail(pages_content), document_id, source_document)

-----------------------------------------------------------------------------
(* The chunker on its own: one call of chunk_documents on a document of at  *)
(* most MaxPages pages, by a chunker of a sampled configuration.            *)

MaxPages == 2

RECURSIVE Repeat(_, _)
\* c * n
Repeat(c, n) ==
    IF n = 0 THEN ""
    ELSE IF n = 1 THEN c
    ELSE Repeat(c, n \div 2) \o Repeat(c, n - n \div 2)

\* the arguments of TextChunker(...): left out, zero, and sizes around the
\* settings' overlap and the shortest chunk
SampleChunkSizes == {NoArg, IntArg(60), IntArg(120)}
SampleChunkOverlaps == {NoArg, IntArg(0), IntArg(20), IntArg(60), IntArg(120)}

\* pages as the PDF processors hand them on (blocks are tuples there), and
\* pages built by hand: no page number, a repeated page number, dict blocks
SamplePages ==
    { [page_number |-> 1, text |-> Repeat("a", 150),
       blocks |-> <<[is_dict |-> FALSE]>>, pdf_type |-> "text"],
      [page_number |-> 1, text |-> Repeat("b", 40) \o Repeat(" ", 30) \o Repeat("b", 80),
       pdf_type |-> "scanned"],
      [page_number |-> 2, text |-> Repeat(" ", 6) \o Repeat("c", 49) \o Repeat(" ", 5),
       blocks |-> <<>>, pdf_type |-> "text"],
      [text |-> ""],
      [page_number |-> 2, text |-> Repeat("d", 50), pdf_type |-> "text"],
      [page_number |-> 0, text |-> Repeat("dose 5 mg daily ", 8),
       blocks |-> <<[is_dict |-> TRUE, text |-> "no box"],
                    [is_dict |-> TRUE, text |-> "5 mg", bbox |-> <<0, 0, 10, 10>>]>>,
       pdf_type |-> "text"] }

RECURSIVE PageLists(_)
\* the lists of at most n sample pages
PageLists(n) ==
    IF n = 0 THEN {<<>>}
    ELSE PageLists(n - 1) \cup
         {Append(l, p) : l \in {k \in PageLists(n - 1) : Len(k) = n - 1}, p \in SamplePages}

ChunkerInit == VerifierInit

\* one call of TextChunker(chunk_size, chunk_overlap).chunk_documents
ChunkDocumentsCall ==
    /\ vin = VerifierIdle
    /\ \E chunk_size \in SampleChunkSizes, chunk_overlap \in SampleChunkOverlaps,
          pages_content \in PageLists(MaxPages) :
          /\ vin' = [op |-> "chunk_documents",
                     chunk_size |-> chunk_size,
                     chunk_overlap |-> chunk_overlap,
                     pages_content |-> pages_content,
                     document_id |-> "doc1"]
          /\ vout' = [chunks |-> chunk_documents(TextChunker(chunk_size, chunk_overlap),
                                                 pages_content, "doc1", "doc1.pdf")]
    /\ UNCHANGED <<orchVars>>

ChunkerNext == ChunkDocumentsCall

SpecChunker == ChunkerInit /\ [][ChunkerNext]_vars

-----------------------------------------------------------------------------
(* Properties of the orchestrator and the verifier *)

\* C1: when check_input flags the query, the request ends with the refusal
\* payload (moderation_flagged = TRUE, confidence_score 0, tokens_used 0) and
\* nothing but check_input has been called: no embedding, search, rerank,
\* generation, output moderation or verification, and no session-store access.
C1_FlaggedInputShortCircuits ==
    \A r \in Requests :
        "input_flagged" \in events[r] =>
            /\ pc[r] = "done"
            /\ resp[r].kind = "payload"
            /\ Get(resp[r].body, "moderation_flagged", FALSE) = TRUE
            /\ resp[r].body.confidence_score = Zero
            /\ resp[r].body.tokens_used = 0
            /\ calls[r] = {"check_input"}
            /\ loc[r].chat_memory = 0

\* a flagged query that named a session has been refused
C1_Witness ==
    \E r \in Requests :
        /\ "input_flagged" \in events[r]
        /\ req[r].session_id # None
        /\ resp[r].kind = "payload"

\* C2: when retrieval yields no candidate, the request ends with the
\* no-information payload (the fixed answer text, confidence_score 0, no
\* evidence and no context used), and the reranker, the generator, output
\* moderation and the verifier have not been called.
C2_NoCandidatesNoInformation ==
    \A r \in Requests :
        ("search" \in calls[r] /\ Len(loc[r].chunks) = 0) =>
            /\ pc[r] = "done"
            /\ resp[r].kind = "payload"
            /\ resp[r].body.answer =
                 "I could not find any relevant information in the documents to answer your question."
            /\ resp[r].body.confidence_score = Zero
            /\ resp[r].body.evidence = <<>>
            /\ Get(resp[r].body, "context_used", 0) = 0
            /\ calls[r] \cap {"rerank", "generate", "check_output", "verify_answer"} = {}

\* a search that ran and matched nothing, in a request with a session
C2_Witness ==
    \E r \in Requests :
        /\ "no_match" \in events[r]
        /\ pc[r] = "done"
        /\ loc[r].chat_memory # 0

\* C3: when the embedding call fails, the request ends with a service error
\* raised to the caller, never with a payload, and generation and
\* verification are not run.
C3_EmbeddingFailureIsServiceError ==
    \A r \in Requests :
        ("embedding_failed" \in events[r] /\ pc[r] = "done") =>
            /\ resp[r].kind = "HTTPException"
            /\ calls[r] \cap {"generate", "verify_answer"} = {}

\* C4: when generation fails (success = FALSE, answer = None), the request
\* ends with an HTTPException and no payload, whether the moderator is
\* enabled with a client or disabled.
C4_GenerationFailureIsServiceError ==
    \A r \in Requests :
        "generation_failed" \in events[r] =>
            /\ pc[r] = "done"
            /\ resp[r].kind = "HTTPException"
            /\ resp[r].status_code = 500

\* generation has failed while the moderator is disabled
C4_Witness ==
    \E r \in Requests :
        /\ "generation_failed" \in events[r]
        /\ ~moderator.enabled
        /\ resp[r].kind = "HTTPException"

\* C5: no request in which the embedding capability or the vector store
\* failed or was unavailable ends with the payload a search without matches
\* ends with.
C5_FailureDistinctFromNoMatch ==
    \A r \in Requests :
        (/\ pc[r] = "done"
         /\ events[r] \cap {"embedding_failed", "embedding_unavailable",
                            "search_failed", "search_unavailable"} # {})
        => resp[r] # Payload(NoInformationResponse(req[r].user_query))

\* C6: when check_output flags the answer, the response returned carries the
\* refusal message as its answer, moderation_flagged = TRUE and
\* moderation_reason = output_policy_violation, and it is a payload.
C6_FlaggedOutputMarked ==
    \A r \in Requests :
        ("output_flagged" \in events[r] /\ pc[r] = "done") =>
            /\ resp[r].kind = "payload"
            /\ resp[r].body.answer = loc[r].rag_result.answer
            /\ Get(resp[r].body, "moderation_flagged", FALSE) = TRUE
            /\ Get(resp[r].body, "moderation_reason", None) = "output_policy_violation"

\* check_input and check_output report every text of the pipeline safe and
\* unflagged, without raising, when the moderation call raises or the
\* moderator has no client
GatesFailOpen ==
    \A mod \in ModeratorStates, text \in Queries \cup PipelineAnswers,
       reply \in ModerationReplies :
        (reply.raise \/ ~mod.client) =>
            /\ check_input(mod, text, reply).is_safe
            /\ ~check_input(mod, text, reply).details.flagged
            /\ ~check_input(mod, text, reply).raised
            /\ check_output(mod, text, reply).is_safe
            /\ ~check_output(mod, text, reply).details.flagged
            /\ ~check_output(mod, text, reply).raised

\* C7: at both gates, when the moderation call raises or the moderator has
\* no client, the text is reported safe and unflagged, the request moves on
\* to the next stage (embedding after the input gate, verification after the
\* output gate, with the answer untouched) and no response is produced by
\* that step.
C7_ModerationFailOpen ==
    [][\A r \in Requests :
        /\ GatesFailOpen
        /\ (/\ pc[r] = "check_input"
            /\ pc'[r] # "check_input"
            /\ (~moderator.client \/ "input_moderation_failed" \in events'[r]))
           => /\ pc'[r] = "embed_text"
              /\ resp'[r] = NoResponse
              /\ "input_flagged" \notin events'[r]
        /\ (/\ pc[r] = "check_output"
            /\ pc'[r] # "check_output"
            /\ (~moderator.client \/ "output_moderation_failed" \in events'[r]))
           => /\ pc'[r] = "verify_answer"
              /\ resp'[r] = NoResponse
              /\ "output_flagged" \notin events'[r]
              /\ loc'[r].rag_result.moderation_flagged = FALSE
              /\ loc'[r].rag_result.answer = loc[r].rag_result.answer
      ]_vars

\* both moderation calls of one request raised and the request returned a payload
C7_Witness ==
    \E r \in Requests :
        /\ {"input_moderation_failed", "output_moderation_failed"} \subseteq events[r]
        /\ pc[r] = "done"
        /\ resp[r].kind = "payload"

\* C8: every payload that carries a generated answer carries a verification
\* record with verified, confidence_score, grounding_score,
\* consistency_score, relevance_score and meets_threshold.
C8_AnswerCarriesVerification ==
    \A r \in Requests :
        (pc[r] = "done" /\ resp[r].kind = "payload" /\ "generate" \in calls[r]) =>
            /\ "verification" \in DOMAIN resp[r].body
            /\ {"verified", "confidence_score", "grounding_score", "consistency_score",
                "relevance_score", "meets_threshold"}
                 \subseteq DOMAIN resp[r].body.verification

\* C9 (as the code has it): verify_answer always returns a result; a failure
\* outside the sub-checks gives verified = FALSE with confidence_score 0; a
\* failing sub-check contributes the neutral 1/2 and the result stays
\* verified = TRUE; in each case the response surfaces the answer the
\* verifier was given, with the verifier's confidence_score (0 on overall
\* failure).
C9_VerifierFailSoft ==
    \A r \in Requests :
        "verify_answer" \in calls[r] =>
            /\ {"verified", "confidence_score"} \subseteq DOMAIN vout
            /\ pc[r] = "done"
            /\ resp[r].kind = "payload"
            /\ resp[r].body.answer = vin.answer
            /\ resp[r].body.answer = loc[r].rag_result.answer
            /\ resp[r].body.confidence_score = vout.confidence_score
            /\ vin.fault = "overall" =>
                  /\ vout.verified = FALSE
                  /\ vout.confidence_score = Zero
                  /\ resp[r].body.confidence_score = Zero
            /\ (vin.verifier.verification_enabled
                /\ vin.fault \in {"grounding", "consistency", "relevance"}) =>
                  /\ vout.verified = TRUE
                  /\ vout[vin.fault \o "_score"] = FallbackScore
                  /\ vout.confidence_score # Zero

\* the verifier failed as a whole and the answer came back with confidence 0
C9_Witness ==
    \E r \in Requests :
        /\ "verify_answer" \in calls[r]
        /\ vin.fault = "overall"
        /\ resp[r].kind = "payload"
        /\ resp[r].body.answer = "Take 5 mg daily."
        /\ resp[r].body.confidence_score = Zero

\* C9 (as stated): whenever any internal check of an enabled verifier fails,
\* verify_answer returns verified = FALSE with confidence_score 0.
C9_AnyFailureZeroConfidence ==
    \A r \in Requests :
        (/\ "verify_answer" \in calls[r]
         /\ vin.verifier.verification_enabled
         /\ vin.fault # "none")
        => (vout.verified = FALSE /\ vout.confidence_score = Zero)

\* C10: on every path of verify_answer the confidence_score lies in [0, 1],
\* and so does each of grounding_score, consistency_score and
\* relevance_score that the result carries; an enabled verifier that does
\* not fail as a whole returns all three.
C10_ScoresInUnitInterval ==
    vout # VerifierIdle =>
        /\ InUnit(vout.confidence_score)
        /\ \A k \in {"grounding_score", "consistency_score", "relevance_score"}
                      \cap DOMAIN vout : InUnit(vout[k])
        /\ (vin.verifier.verification_enabled /\ vin.fault # "overall") =>
              {"grounding_score", "consistency_score", "relevance_score"}
                  \subseteq DOMAIN vout

\* the grounding check failed on an answer whose two negations the context lacks
C10_Witness ==
    /\ vout # VerifierIdle
    /\ vin.verifier.verification_enabled
    /\ vin.fault = "grounding"
    /\ Len(vin.context_chunks) = 2
    /\ vout.grounding_score = FallbackScore
    /\ vout.consistency_score = Rat(3, 5)

\* C11: in every result of verify_answer that carries meets_threshold, under
\* every configured threshold and with verification enabled or disabled,
\* meets_threshold is TRUE exactly when confidence_score >= confidence_threshold.
C11_MeetsThresholdIffAbove ==
    (vout # VerifierIdle /\ "meets_threshold" \in DOMAIN vout) =>
        (vout.meets_threshold <=>
            RatLeq(vin.verifier.confidence_threshold, vout.confidence_score))

\* C12: every chunk the retrieval step hands on to reranking and generation
\* has a score of at least similarity_threshold, and a request whose
\* candidates all score below it ends with the no-information payload.
C12_NoChunkBelowThreshold ==
    \A r \in Requests :
        /\ \A i \in 1..Len(loc[r].chunks) :
              RatLeq(SimilarityThreshold, loc[r].chunks[i].distance)
        /\ (pc[r] = "done" /\ resp[r].kind = "payload" /\ "search" \in calls[r]
            /\ \A i \in 1..Len(loc[r].chunks) :
                  RatLt(loc[r].chunks[i].distance, SimilarityThreshold))
           => resp[r].body.answer = NoInformationAnswer

\* C13: in every state of the scoring model, the output of rerank_chunks and
\* of _step_rerank holds only chunks of its input, each at most once, has at
\* most top_k elements, and is in descending order of rerank_score.
C13_RerankOutputBounded ==
    vout # VerifierIdle =>
        /\ \A i \in 1..Len(vout.chunks) :
              \E j \in 1..Len(vin.chunks) :
                  /\ vout.chunks[i].chunk_id = vin.chunks[j].chunk_id
                  /\ \A k \in DOMAIN vin.chunks[j] : vout.chunks[i][k] = vin.chunks[j][k]
        /\ \A i, j \in 1..Len(vout.chunks) :
              i # j => vout.chunks[i].chunk_id # vout.chunks[j].chunk_id
        /\ Len(vout.chunks) <= vin.top_k
        /\ \A i, j \in 1..Len(vout.chunks) :
              i < j => RatLeq(Get(vout.chunks[j], "rerank_score", Zero),
                              Get(vout.chunks[i], "rerank_score", Zero))

\* C14: when the scoring model is unavailable or raises, the rerank step
\* still goes on to generation without a response being produced, every
\* candidate gets the same neutral score, and the candidates are handed on in
\* their retrieval order.
C14_RerankFailSoft ==
    [][\A r \in Requests :
          (pc[r] = "rerank" /\ pc'[r] # "rerank" /\ "rerank_failed" \in events'[r]) =>
              /\ pc'[r] = "generate"
              /\ resp'[r] = resp[r]
              /\ Len(loc'[r].chunks) = Len(Prefix(loc[r].chunks, RerankTopK))
              /\ \A i \in 1..Len(loc'[r].chunks) :
                    /\ loc'[r].chunks[i].chunk_id = loc[r].chunks[i].chunk_id
                    /\ loc'[r].chunks[i].rerank_score = NeutralScore]_vars

C14_Witness ==
    \E r \in Requests :
        /\ pc[r] = "generate"
        /\ "rerank_failed" \in events[r]
        /\ Len(loc[r].chunks) = 2
        /\ loc[r].chunks[1].chunk_id = HitA.id

\* C15: every ChatMemory, whether built by appends and clear_history or
\* rebuilt by from_dict or load_session, holds at most max_messages messages.
C15_CountWithinMaxMessages ==
    /\ \A o \in DOMAIN heap :
          ~IsFree(heap[o]) => Len(heap[o].messages) <= heap[o].max_messages
    /\ (vout # VerifierIdle /\ vout.found) =>
          Len(vout.memory.messages) <= vout.memory.max_messages

C18_RoundTrip ==
    /\ (vin # VerifierIdle /\ vin.op = "from_dict") =>
          /\ vout.memory.messages = vin.memory.messages
          /\ vout.memory.documents_used = vin.memory.documents_used
    /\ (vin # VerifierIdle /\ vin.op = "load_session"
        /\ vin.file = ChatMemoryToDict(vin.memory)) =>
          /\ vout.found
          /\ vout.memory.messages = vin.memory.messages
          /\ vout.memory.documents_used = vin.memory.documents_used

C18_Witness ==
    /\ vin # VerifierIdle
    /\ vin.op = "load_session"
    /\ vin.file = ChatMemoryToDict(vin.memory)
    /\ Len(vout.memory.messages) = 2
    /\ vout.memory.messages[1].timestamp # vout.memory.messages[2].timestamp
    /\ vout.memory.documents_used = {"a.pdf"}

\* C19: the generator is handed a transcript exactly when the session held
\* at least one message before this request recorded its own; a request whose
\* session held none hands the generator no transcript, as a request without
\* session_id does, the transcript being the only session-dependent input of a
\* capability call.
C19_TranscriptIffPriorMessages ==
    \A r \in Requests :
        "rerank" \in calls[r] =>
            /\ (~loc[r].chat_history.is_none) <=> ("prior_messages" \in events[r])
            /\ req[r].session_id = None => loc[r].chat_history = NoHistory
            /\ "prior_messages" \notin events[r] => loc[r].chat_history = NoHistory
            /\ "prior_messages" \in events[r] =>
                  /\ Len(loc[r].chat_history.transcript) >= 2
                  /\ loc[r].chat_history.transcript[Len(loc[r].chat_history.transcript)]
                        = [role |-> "user", content |-> req[r].user_query]

C19_Witness ==
    \E r \in Requests :
        /\ pc[r] = "done"
        /\ resp[r].kind = "payload"
        /\ "prior_messages" \in events[r]
        /\ "verify_answer" \in calls[r]
        /\ Len(loc[r].chat_history.transcript) = 3

\* the step of request r in which its session object gets an assistant message
AppendsAssistantMessage(r) ==
    /\ loc[r].chat_memory # 0
    /\ pc'[r] # pc[r]
    /\ ~IsFree(heap'[loc[r].chat_memory])
    /\ Len(heap'[loc[r].chat_memory].messages) = Len(heap[loc[r].chat_memory].messages) + 1
    /\ heap'[loc[r].chat_memory].messages[Len(heap'[loc[r].chat_memory].messages)].role
          = "assistant"

\* the user message is in the session when the embedding call returns
UserMessageBeforeEmbedding(r) ==
    (pc[r] = "embed_text" /\ pc'[r] # "embed_text" /\ req[r].session_id # None) =>
        /\ loc[r].chat_memory # 0
        /\ "embed_text" \notin calls[r]
        /\ LET msgs == heap[loc[r].chat_memory].messages
           IN  /\ Len(msgs) >= 1
               /\ msgs[Len(msgs)].role = "user"
               /\ msgs[Len(msgs)].content = req[r].user_query

\* the appended assistant message holds the answer of the response, the
\* session is written in the same step (unless the write fails or the session
\* was deleted meanwhile), and the response is handed back in that step
AssistantMessageSavedBeforeReturn(r) ==
    AppendsAssistantMessage(r) =>
        LET oid == loc[r].chat_memory
            msgs == heap'[oid].messages
        IN  /\ pc'[r] = "done"
            /\ resp[r] = NoResponse
            /\ resp'[r].kind = "payload"
            /\ msgs[Len(msgs)].content = resp'[r].body.answer
            /\ (sessions[req[r].session_id] = oid /\ "save_failed" \notin events'[r]) =>
                  disk'[req[r].session_id] = ChatMemoryToDict(heap'[oid])

C21_AssistantTurnDurablySaved ==
    [][\A r \in Requests :
          (AppendsAssistantMessage(r) /\ resp'[r].kind = "payload") =>
              LET oid == loc[r].chat_memory
                  msgs == heap'[oid].messages
                  file == disk'[req[r].session_id]
              IN  /\ file # NoFile
                  /\ Len(file.messages) >= 1
                  /\ file.messages[Len(file.messages)]
                        = ConversationMessageToDict(msgs[Len(msgs)])]_vars

\* what the requests have appended to the session so far
UserAppends == {r \in DOMAIN calls : "session_store" \in calls[r]}

AssistantAppends ==
    {r \in DOMAIN resp : /\ pc[r] = "done"
                         /\ resp[r].kind = "payload"
                         /\ "session_store" \in calls[r]}

RoleCount(msgs, role) == Cardinality({i \in 1..Len(msgs) : msgs[i].role = role})

\* every message appended by a request is in the history of session "s1"
HistoryComplete ==
    IF sessions["s1"] = 0 THEN UserAppends = {}
    ELSE LET msgs == heap[sessions["s1"]].messages
         IN  /\ RoleCount(msgs, "user") = Cardinality(UserAppends)
             /\ RoleCount(msgs, "assistant") = Cardinality(AssistantAppends)

\* all requests work on the object the session id stands for
SameSessionObject ==
    \A r \in DOMAIN loc : loc[r].chat_memory \in {0, sessions["s1"]}

\* the persisted copy is the in-memory session
PersistedIsCurrent ==
    sessions["s1"] # 0 => disk["s1"] = ChatMemoryToDict(heap[sessions["s1"]])

AllFinished == turns = Cardinality(DOMAIN pc) /\ \A r \in DOMAIN pc : pc[r] = "done"

-----------------------------------------------------------------------------
(* Properties of the chunker *)

ChunkerCalled == "op" \in DOMAIN vin /\ vin.op = "chunk_documents"

\* C23: every chunk chunk_documents emits has a stripped text of at least 50
\* characters, for every page text and every chunker configuration; a window
\* whose stripped text is shorter is never emitted.
C23_EmittedChunksLongEnough ==
    ChunkerCalled =>
        \A i \in 1..Len(vout.chunks) : Len(Strip(vout.chunks[i].text)) >= 50

\* a call that emitted a chunk and skipped a window of 50 characters or more
\* whose stripped text is shorter than 50
C23_Witness ==
    /\ ChunkerCalled
    /\ Len(vout.chunks) > 0
    /\ LET chunker == TextChunker(vin.chunk_size, vin.chunk_overlap)
       IN  \E p \in 1..Len(vin.pages_content) :
              LET text == Get(vin.pages_content[p], "text", "")
                  offsets == WindowOffsets(text, chunker.chunk_size
                                                   - chunker.chunk_overlap).offsets
              IN  \E k \in 1..Len(offsets) :
                     LET window == Slice(text, offsets[k], chunker.chunk_size)
                     IN  /\ Len(window) >= 50
                         /\ Len(Strip(window)) < 50
                         /\ \A i \in 1..Len(vout.chunks) : vout.chunks[i].text # window

\* two chunks with the same chunk_id agree on document, page and index
SameIdSameKey ==
    \A i, j \in 1..Len(vout.chunks) :
        vout.chunks[i].chunk_id = vout.chunks[j].chunk_id =>
            /\ vout.chunks[i].document_id = vout.chunks[j].document_id
            /\ vout.chunks[i].page_number = vout.chunks[j].page_number
            /\ vout.chunks[i].chunk_index = vout.chunks[j].chunk_index

DistinctChunkIds ==
    \A i, j \in 1..Len(vout.chunks) :
        i # j => vout.chunks[i].chunk_id # vout.chunks[j].chunk_id

\* the chunks emitted for the page at position p of the input
ChunksOfPage(p) ==
    chunk_page_content(TextChunker(vin.chunk_size, vin.chunk_overlap),
                       vin.pages_content[p], vin.document_id, "doc1.pdf")

\* the output is the pages' chunks one page after the other, and within each
\* page chunk_index counts 0, 1, 2, ... in emission order
IndexCountsEmitted ==
    /\ \A p \in 1..Len(vin.pages_content) : \A cs \in {ChunksOfPage(p)} :
          \A k \in 1..Len(cs) : cs[k].chunk_index = k - 1
    /\ Len(vout.chunks) >= 1 => vout.chunks[1].chunk_index = 0
    /\ \A i \in 2..Len(vout.chunks) :
          vout.chunks[i].chunk_index \in {0, vout.chunks[i - 1].chunk_index + 1}

DistinctPageNumbers ==
    \A p, q \in 1..Len(vin.pages_content) :
        p # q => Get(vin.pages_content[p], "page_number", 0)
                    # Get(vin.pages_content[q], "page_number", 0)

RECURSIVE SurvivingWindows(_, _, _)
SurvivingWindows(pages_content, size, overlap) ==
    IF Len(pages_content) = 0 THEN <<>>
    ELSE LET text == Get(Head(pages_content), "text", "")
             offsets == RangeFromZero(0, Len(text), size - overlap)
             windows == [k \in 1..Len(offsets) |-> Slice(text, offsets[k], size)]
         IN  SelectSeq(windows, LAMBDA w : Len(Strip(w)) >= 50)
             \o SurvivingWindows(Tail(pages_content), size, overlap)

\* C27: a chunker constructed with chunk_size > 0 and 0 <= chunk_overlap <
\* chunk_size (0 included) examines the windows text[i : i + chunk_size] for
\* i = 0, s, 2s, ... < len(text), s = chunk_size - chunk_overlap of the values
\* passed to the constructor, and emits the surviving windows in increasing
\* offset order.
C27_WindowsOfPassedStride ==
    (/\ ChunkerCalled
     /\ ~vin.chunk_size.is_none /\ ~vin.chunk_overlap.is_none
     /\ vin.chunk_size.value > 0
     /\ 0 <= vin.chunk_overlap.value /\ vin.chunk_overlap.value < vin.chunk_size.value)
    => [i \in 1..Len(vout.chunks) |-> vout.chunks[i].text]
          = SurvivingWindows(vin.pages_content, vin.chunk_size.value,
                             vin.chunk_overlap.value)

-----------------------------------------------------------------------------
(* Properties of the session's document set *)

\* the documents named by the metadata of the assistant messages in msgs
AssistantDocuments(msgs) ==
    UNION {Range(Get(msgs[i].metadata, "documents_used", <<>>)) :
              i \in {j \in 1..Len(msgs) : msgs[j].role = "assistant"}}

\* C25: after any sequence of add_user_message and add_assistant_message
\* calls, documents_used is the union of the documents_used metadata of every
\* assistant message appended so far, evicted ones included; the metadata of
\* user messages never changes it.
C25_DocumentsUsedIsUnion ==
    heap[1].documents_used = AssistantDocuments(appended)

\* an assistant message that named a document has been evicted, a user
\* message whose metadata names another document was appended, and the
\* session still lists the first document only
C25_Witness ==
    /\ heap[1].documents_used = {"a.pdf"}
    /\ AssistantDocuments(heap[1].messages) = {}
    /\ \E i \in 1..Len(appended) :
          /\ appended[i].role = "user"
          /\ "documents_used" \in DOMAIN appended[i].metadata

-----------------------------------------------------------------------------
(* Properties of the consistency score *)

ConsistencyCalled == "op" \in DOMAIN vin /\ vin.op = "verify_consistency"

\* the chunk texts that are not blank, joined by single blanks, lower-cased
LoweredContext(chunks) ==
    Lower(JoinStr(SelectSeq([i \in 1..Len(chunks) |-> Get(chunks[i], "text", "")],
                            LAMBDA t : \E j \in 1..Len(t) : CharAt(t, j) # " "),
                  " "))

\* k: the markers in the lower-cased answer that the lower-cased context lacks
UnmatchedMarkers(answer, chunks) ==
    Cardinality({w \in {"no ", "not ", "never ", "cannot"} :
                    /\ Contains(Lower(IF answer = None THEN "" ELSE answer), w)
                    /\ ~Contains(LoweredContext(chunks), w)})

\* max(0, 1.0 - 0.2 * k)
MarkerScore(k) == IF k >= 5 THEN Zero ELSE Rat(5 - k, 5)

\* C26 (as stated): for every answer and every chunk list, the empty list and
\* chunks with empty text included, _verify_consistency returns
\* max(0, 1.0 - 0.2*k), k the number of the four negation markers in the
\* lower-cased answer that the lower-cased concatenated context lacks.
C26_ConsistencyIsMarkerScore ==
    (ConsistencyCalled /\ vin.fault = "none") =>
        vout.score = MarkerScore(UnmatchedMarkers(vin.answer, vin.context_chunks))

\* C26 (amended): that value is returned when at least one chunk has a text
\* that is not blank; for an empty list, for a list whose chunks all have no
\* or blank text, and when the computation raises, 0.5 is returned.
C26_ConsistencyIsMarkerScoreOrNeutral ==
    ConsistencyCalled =>
        vout.score =
            IF vin.fault # "none" \/ LoweredContext(vin.context_chunks) = ""
            THEN Rat(1, 2)
            ELSE MarkerScore(UnmatchedMarkers(vin.answer, vin.context_chunks))

\* an answer in capitals with a marker the context lacks, scored 0.8 against
\* two chunks of which one has no text
C26_Witness ==
    /\ ConsistencyCalled
    /\ vin.fault = "none"
    /\ vin.answer = "NOT cold"
    /\ Len(vin.context_chunks) = 2
    /\ \E i \in 1..2 : "text" \notin DOMAIN vin.context_chunks[i]
    /\ vout.score = Rat(4, 5)

-----------------------------------------------------------------------------
(* Properties of failed and deleted requests *)

\* every user message is followed by an assistant message
EveryUserAnswered(msgs) ==
    \A i \in 1..Len(msgs) :
        msgs[i].role = "user" => i < Len(msgs) /\ msgs[i + 1].role = "assistant"

\* C28: a request that ends in a service error leaves its session as it was
\* before the request, so that with no request in flight every user message
\* of the session is followed by an assistant message and the persisted copy
\* equals the in-memory session.
C28_FailedRequestLeavesSession ==
    \A r \in DOMAIN pc :
        (/\ pc[r] = "done"
         /\ resp[r].kind = "HTTPException"
         /\ req[r].session_id # None
         /\ sessions[req[r].session_id] # 0)
        => LET m == heap[sessions[req[r].session_id]]
           IN  /\ EveryUserAnswered(m.messages)
               /\ disk[req[r].session_id] = ChatMemoryToDict(m)

\* request r finishes in this step, its session having been deleted while it
\* was between recording its user message and saving
FinishesAfterDeletion(r) ==
    /\ pc[r] # "done" /\ pc'[r] = "done"
    /\ "session_deleted" \in events[r]

\* session sid comes into being in this step, through request r
CreatesSession(r, sid) ==
    /\ sessions[sid] = 0 /\ sessions'[sid] # 0
    /\ loc[r].chat_memory = 0 /\ loc'[r].chat_memory = sessions'[sid]

\* a session comes into being only through a request, and holds nothing but
\* that request's user message
CreatedEmpty ==
    \A sid \in SessionIds :
        (sessions[sid] = 0 /\ sessions'[sid] # 0) =>
            /\ \E r \in DOMAIN pc : CreatesSession(r, sid)
            /\ Len(heap'[sessions'[sid]].messages) = 1
            /\ heap'[sessions'[sid]].messages[1].role = "user"
            /\ heap'[sessions'[sid]].documents_used = {}

-----------------------------------------------------------------------------
(* Properties of the moderator *)

ModeratorCalled == "op" \in DOMAIN vin /\ vin.op \in {"check_input", "check_output"}

\* C30: whenever check_input or check_output returns is_safe = false, the
\* violated_categories it hands back is a non-empty subset of hate,
\* hate/threatening, violence, harassment; a classification that flags only
\* other categories causes no refusal; every refusal message names at least
\* one category.
C30_RefusedOnlyForCheckedCategories ==
    ModeratorCalled =>
        /\ ~vout.is_safe =>
              /\ "violated_categories" \in DOMAIN vout.details
              /\ Len(vout.details.violated_categories) > 0
              /\ Range(vout.details.violated_categories)
                    \subseteq {"hate", "hate/threatening", "violence", "harassment"}
              /\ \E c \in {"hate", "hate/threatening", "violence", "harassment"} :
                    Contains(vout.message, c)
        /\ (/\ ~vin.reply.raise
            /\ vin.reply.cats \cap {"hate", "hate/threatening", "violence", "harassment"} = {})
           => vout.is_safe

====
